---- MODULE Spec2Model ----
(***************************************************************************)
(* Enhanced Agent Engine (enhanced_system): the chatbot orchestrator       *)
(* (main_orchestrator.py), the request seeding callback and the declared   *)
(* agent pipelines (agents/enhanced_coordinator.py), run by the            *)
(* SequentialAgent / LoopAgent execution of google.adk.                    *)
(*                                                                         *)
(* Python str values are sequences of one-character strings, so that       *)
(* lower(), the `in` substring test, json.dumps and json.loads are         *)
(* computed character by character.                                        *)
(***************************************************************************)
EXTENDS Integers, Sequences, FiniteSets, TLC

(***************************************************************************)
(* Bounds of the model.                                                    *)
(***************************************************************************)
\* Longest request, in words of Vocabulary, the classifier is applied to.
MaxWords == 3
\* Calls (process_user_message, web requests, workflow runs) begun in a behaviour.
MaxRequests == 2

(***************************************************************************)
(* String literals of the source, as character sequences.                  *)
(***************************************************************************)
s_git_analysis ==
    <<"g","i","t","_","a","n","a","l","y","s","i","s">>

s_git_pull ==
    <<"g","i","t","_","p","u","l","l">>

s_jira_test_generation ==
    <<"j","i","r","a","_","t","e","s","t","_","g","e","n","e","r","a","t","i","o","n">>

s_jira_analysis ==
    <<"j","i","r","a","_","a","n","a","l","y","s","i","s">>

s_pdf_processing ==
    <<"p","d","f","_","p","r","o","c","e","s","s","i","n","g">>

s_script_generation ==
    <<"s","c","r","i","p","t","_","g","e","n","e","r","a","t","i","o","n">>

s_test_generation ==
    <<"t","e","s","t","_","g","e","n","e","r","a","t","i","o","n">>

s_code_analysis ==
    <<"c","o","d","e","_","a","n","a","l","y","s","i","s">>

s_general_chat ==
    <<"g","e","n","e","r","a","l","_","c","h","a","t">>

s_general ==
    <<"g","e","n","e","r","a","l">>

s_analyze_git_repository ==
    <<"a","n","a","l","y","z","e","_","g","i","t","_","r","e","p","o","s","i","t","o","r","y">>

s_generate_tests_from_jira ==
    <<"g","e","n","e","r","a","t","e","_","t","e","s","t","s","_","f","r","o","m","_","j","i","r","a">>

s_process_pdf_document ==
    <<"p","r","o","c","e","s","s","_","p","d","f","_","d","o","c","u","m","e","n","t">>

s_generate_automation_script ==
    <<"g","e","n","e","r","a","t","e","_","a","u","t","o","m","a","t","i","o","n","_","s","c","r","i","p","t">>

s_generate_test_suite ==
    <<"g","e","n","e","r","a","t","e","_","t","e","s","t","_","s","u","i","t","e">>

s_analyze_code_changes ==
    <<"a","n","a","l","y","z","e","_","c","o","d","e","_","c","h","a","n","g","e","s">>

s_general_assistance ==
    <<"g","e","n","e","r","a","l","_","a","s","s","i","s","t","a","n","c","e">>

s_user_message ==
    <<"u","s","e","r","_","m","e","s","s","a","g","e">>

s_request_type ==
    <<"r","e","q","u","e","s","t","_","t","y","p","e">>

s_timestamp ==
    <<"t","i","m","e","s","t","a","m","p">>

s_task ==
    <<"t","a","s","k">>

s_python ==
    <<"p","y","t","h","o","n">>

s_status ==
    <<"s","t","a","t","u","s">>

s_UNKNOWN ==
    <<"U","N","K","N","O","W","N">>

s_git_workflow ==
    <<"g","i","t","_","w","o","r","k","f","l","o","w">>

s_jira_workflow ==
    <<"j","i","r","a","_","w","o","r","k","f","l","o","w">>

s_pdf_workflow ==
    <<"p","d","f","_","w","o","r","k","f","l","o","w">>

s_script_workflow ==
    <<"s","c","r","i","p","t","_","w","o","r","k","f","l","o","w">>

s_test_generation_workflow ==
    <<"t","e","s","t","_","g","e","n","e","r","a","t","i","o","n","_","w","o","r","k","f","l","o","w">>

(***************************************************************************)
(* Keyword families of _detect_request_type.                               *)
(***************************************************************************)
git_keywords ==
    { <<"g","i","t">>,
      <<"r","e","p","o","s","i","t","o","r","y">>,
      <<"r","e","p","o">>,
      <<"g","i","t","h","u","b">>,
      <<"g","i","t","l","a","b">> }

git_analysis_keywords ==
    { <<"a","n","a","l","y","z","e">>,
      <<"c","h","a","n","g","e","s">>,
      <<"d","i","f","f">>,
      <<"c","o","m","m","i","t">> }

jira_keywords ==
    { <<"j","i","r","a">>,
      <<"t","i","c","k","e","t">>,
      <<"i","s","s","u","e">>,
      <<"s","t","o","r","y">> }

jira_test_keywords ==
    { <<"t","e","s","t">>,
      <<"c","a","s","e">>,
      <<"s","c","e","n","a","r","i","o">> }

pdf_keywords ==
    { <<"p","d","f">>,
      <<"d","o","c","u","m","e","n","t">>,
      <<"f","i","l","e">> }

script_keywords ==
    { <<"s","c","r","i","p","t">>,
      <<"a","u","t","o","m","a","t","i","o","n">>,
      <<"g","e","n","e","r","a","t","e">> }

test_keywords ==
    { <<"t","e","s","t">>,
      <<"u","n","i","t","t","e","s","t">>,
      <<"p","y","t","e","s","t">> }

code_keywords ==
    { <<"a","n","a","l","y","z","e">>,
      <<"c","o","d","e">>,
      <<"r","e","v","i","e","w">> }

Vocabulary ==
    { <<"A","n","a","l","y","z","e">>,
      <<"g","i","t">>,
      <<"d","i","g","i","t","a","l">>,
      <<"J","I","R","A">>,
      <<"t","i","c","k","e","t">>,
      <<"t","e","s","t","s">>,
      <<"P","D","F">>,
      <<"p","r","o","f","i","l","e">>,
      <<"s","c","r","i","p","t">>,
      <<"G","e","n","e","r","a","t","e">>,
      <<"c","o","d","e">>,
      <<"h","e","l","l","o">>,
      <<"h","i","s","t","o","r","y">> }

msg_empty ==
    <<>>

msg_hello ==
    <<"h","e","l","l","o">>

msg_git_scenario ==
    <<"A","n","a","l","y","z","e"," ","g","i","t"," ","r","e","p","o","s","i","t","o","r","y"," ","h","t","t","p","s",":","/","/","e","x","a","m","p","l","e",".","c","o","m","/","r","e","p","o",".","g","i","t"," ","c","h","a","n","g","e","s"," ","s","i","n","c","e"," ","l","a","s","t"," ","c","o","m","m","i","t">>

msg_jira_scenario ==
    <<"G","e","n","e","r","a","t","e"," ","t","e","s","t","s"," ","f","r","o","m"," ","J","I","R","A"," ","t","i","c","k","e","t"," ","P","R","O","J","-","1","2","3">>

msg_cmd_git ==
    <<"A","n","a","l","y","z","e"," ","g","i","t"," ","r","e","p","o","s","i","t","o","r","y"," ","X">>

msg_cmd_jira ==
    <<"G","e","n","e","r","a","t","e"," ","t","e","s","t","s"," ","f","r","o","m"," ","J","I","R","A"," ","t","i","c","k","e","t"," ","X">>

msg_cmd_pdf ==
    <<"P","r","o","c","e","s","s"," ","P","D","F"," ","d","o","c","u","m","e","n","t"," ","X">>

msg_cmd_script ==
    <<"G","e","n","e","r","a","t","e"," ","a","u","t","o","m","a","t","i","o","n"," ","s","c","r","i","p","t"," ","f","o","r"," ","X">>

msg_cmd_code ==
    <<"A","n","a","l","y","z","e"," ","c","o","d","e"," ","c","h","a","n","g","e","s"," ","i","n"," ","X">>

msg_cmd_test ==
    <<"G","e","n","e","r","a","t","e"," ","t","e","s","t","s"," ","f","o","r"," ","X">>

msg_run_pytest ==
    <<"r","u","n"," ","p","y","t","e","s","t">>

msg_pull_repo ==
    <<"p","u","l","l"," ","t","h","e"," ","r","e","p","o">>

msg_jira_only ==
    <<"o","p","e","n"," ","J","I","R","A"," ","s","t","o","r","y">>

UpperCase ==
    <<"A","B","C","D","E","F","G","H","I","J","K","L","M","N","O","P","Q","R","S","T","U","V","W","X","Y","Z">>

LowerCase ==
    <<"a","b","c","d","e","f","g","h","i","j","k","l","m","n","o","p","q","r","s","t","u","v","w","x","y","z">>

(***************************************************************************)
(* str.lower() and the substring test `keyword in message_lower`.          *)
(***************************************************************************)
lower_char(ch) ==
    IF \E i \in 1..Len(UpperCase) : UpperCase[i] = ch
    THEN LowerCase[CHOOSE i \in 1..Len(UpperCase) : UpperCase[i] = ch]
    ELSE ch

str_lower(s) ==
    [i \in 1..Len(s) |-> lower_char(s[i])]

str_contains(kw, s) ==
    \E i \in 0..(Len(s) - Len(kw)) : \A j \in 1..Len(kw) : s[i + j] = kw[j]

any_keyword(keywords, s) ==
    \E keyword \in keywords : str_contains(keyword, s)

\* Faulty variant of _detect_request_type: the default branch returns "general".
_detect_request_type_default_general(message) ==
    LET message_lower == str_lower(message) IN
    IF any_keyword(git_keywords, message_lower)
    THEN IF any_keyword(git_analysis_keywords, message_lower)
         THEN s_git_analysis
         ELSE s_git_pull
    ELSE IF any_keyword(jira_keywords, message_lower)
    THEN IF any_keyword(jira_test_keywords, message_lower)
         THEN s_jira_test_generation
         ELSE s_jira_analysis
    ELSE IF any_keyword(pdf_keywords, message_lower)
    THEN s_pdf_processing
    ELSE IF any_keyword(script_keywords, message_lower)
    THEN s_script_generation
    ELSE IF any_keyword(test_keywords, message_lower)
    THEN s_test_generation
    ELSE IF any_keyword(code_keywords, message_lower)
    THEN s_code_analysis
    ELSE s_general

\* Faulty variant of _detect_request_type: the script family is tested first.
_detect_request_type_script_first(message) ==
    LET message_lower == str_lower(message) IN
    IF any_keyword(script_keywords, message_lower)
    THEN s_script_generation
    ELSE IF any_keyword(git_keywords, message_lower)
    THEN IF any_keyword(git_analysis_keywords, message_lower)
         THEN s_git_analysis
         ELSE s_git_pull
    ELSE IF any_keyword(jira_keywords, message_lower)
    THEN IF any_keyword(jira_test_keywords, message_lower)
         THEN s_jira_test_generation
         ELSE s_jira_analysis
    ELSE IF any_keyword(pdf_keywords, message_lower)
    THEN s_pdf_processing
    ELSE IF any_keyword(test_keywords, message_lower)
    THEN s_test_generation
    ELSE IF any_keyword(code_keywords, message_lower)
    THEN s_code_analysis
    ELSE s_general_chat

\* Faulty variant of _detect_request_type: the generic test family is tested
\* before the domain-specific ones.
_detect_request_type_test_first(message) ==
    LET message_lower == str_lower(message) IN
    IF any_keyword(test_keywords, message_lower)
    THEN s_test_generation
    ELSE IF any_keyword(git_keywords, message_lower)
    THEN IF any_keyword(git_analysis_keywords, message_lower)
         THEN s_git_analysis
         ELSE s_git_pull
    ELSE IF any_keyword(jira_keywords, message_lower)
    THEN IF any_keyword(jira_test_keywords, message_lower)
         THEN s_jira_test_generation
         ELSE s_jira_analysis
    ELSE IF any_keyword(pdf_keywords, message_lower)
    THEN s_pdf_processing
    ELSE IF any_keyword(script_keywords, message_lower)
    THEN s_script_generation
    ELSE IF any_keyword(code_keywords, message_lower)
    THEN s_code_analysis
    ELSE s_general_chat

(***************************************************************************)
(* ChatbotOrchestrator._detect_request_type                                *)
(***************************************************************************)
_detect_request_type(message) ==
    LET message_lower == str_lower(message) IN
    IF any_keyword(git_keywords, message_lower)
    THEN IF any_keyword(git_analysis_keywords, message_lower)
         THEN s_git_analysis
         ELSE s_git_pull
    ELSE IF any_keyword(jira_keywords, message_lower)
    THEN IF any_keyword(jira_test_keywords, message_lower)
         THEN s_jira_test_generation
         ELSE s_jira_analysis
    ELSE IF any_keyword(pdf_keywords, message_lower)
    THEN s_pdf_processing
    ELSE IF any_keyword(script_keywords, message_lower)
    THEN s_script_generation
    ELSE IF any_keyword(test_keywords, message_lower)
    THEN s_test_generation
    ELSE IF any_keyword(code_keywords, message_lower)
    THEN s_code_analysis
    ELSE s_general_chat

(***************************************************************************)
(* ChatbotOrchestrator._format_request: the request_data dict, as the      *)
(* sequence of its (key, value) items in insertion order.                  *)
(***************************************************************************)
task_for(request_type) ==
    IF request_type = s_git_analysis THEN s_analyze_git_repository
    ELSE IF request_type = s_jira_test_generation THEN s_generate_tests_from_jira
    ELSE IF request_type = s_pdf_processing THEN s_process_pdf_document
    ELSE IF request_type = s_script_generation THEN s_generate_automation_script
    ELSE IF request_type = s_test_generation THEN s_generate_test_suite
    ELSE IF request_type = s_code_analysis THEN s_analyze_code_changes
    ELSE s_general_assistance

(***************************************************************************)
(* Python values: <<"str", chars>>, <<"num", chars>>, <<"dict", items>>    *)
(* with items a sequence of <<key chars, value>>, <<"list", elements>>,    *)
(* <<"true">>, <<"false">>, <<"null">> (None), and <<"out", stage, n, k>>  *)
(* for the text an LLM stage produced (opaque, tagged by its origin).      *)
(***************************************************************************)
PyStr(chars) ==
    <<"str", chars>>

PyNum(chars) ==
    <<"num", chars>>

PyDict(items) ==
    <<"dict", items>>

PyList(elems) ==
    <<"list", elems>>

PyNone ==
    <<"null">>

PyFalse ==
    <<"false">>

PyTrue ==
    <<"true">>

\* dict.get(key, default): the value of the last item with that key.
dict_get(items, key, default) ==
    LET hits == {i \in 1..Len(items) : items[i][1] = key} IN
    IF hits = {} THEN default
    ELSE items[CHOOSE i \in hits : \A j \in hits : j <= i][2]

(***************************************************************************)
(* json.dumps(request_data, indent=2) for a dict of str and number values. *)
(***************************************************************************)
\* Faulty variant of json_escape: the characters are written as they are.
json_escape_none(chars) ==
    chars

RECURSIVE json_escape(_)
json_escape(chars) ==
    IF chars = <<>> THEN <<>>
    ELSE LET ch == Head(chars)
             enc == IF ch = "\"" THEN <<"\\", "\"">>
                    ELSE IF ch = "\\" THEN <<"\\", "\\">>
                    ELSE IF ch = "\n" THEN <<"\\", "n">>
                    ELSE IF ch = "\t" THEN <<"\\", "t">>
                    ELSE IF ch = "\r" THEN <<"\\", "r">>
                    ELSE IF ch = "\f" THEN <<"\\", "f">>
                    ELSE IF ch = "BS" THEN <<"\\", "b">>
                    ELSE <<ch>>
         IN  enc \o json_escape(Tail(chars))

json_quote(chars) ==
    <<"\"">> \o json_escape(chars) \o <<"\"">>

json_scalar(value) ==
    IF value[1] = "str" THEN json_quote(value[2]) ELSE value[2]

RECURSIVE json_items(_)
json_items(items) ==
    IF items = <<>> THEN <<>>
    ELSE <<"\n", " ", " ">> \o json_quote(items[1][1]) \o <<":", " ">>
         \o json_scalar(items[1][2])
         \o (IF Len(items) > 1 THEN <<",">> ELSE <<>>)
         \o json_items(Tail(items))

json_dumps(items) ==
    IF items = <<>> THEN <<"{", "}">>
    ELSE <<"{">> \o json_items(items) \o <<"\n", "}">>

(***************************************************************************)
(* json.loads: objects, arrays, strings (escapes \" \\ \/ \b \f \n \r \t), *)
(* numbers (integer part and fraction), true, false, null.  A parse step   *)
(* returns [ok, val, next]: the value and the index after it.  "BS" is    *)
(* the backspace character, which has no TLA+ string escape.               *)
(***************************************************************************)
Digits ==
    {"0", "1", "2", "3", "4", "5", "6", "7", "8", "9"}

DigitChars ==
    <<"0", "1", "2", "3", "4", "5", "6", "7", "8", "9">>

JsonWhitespace ==
    {" ", "\t", "\n", "\r"}

JsonFail ==
    [ok |-> FALSE, val |-> PyNone, next |-> 0]

JsonOk(val, next) ==
    [ok |-> TRUE, val |-> val, next |-> next]

RECURSIVE skip_ws(_, _)
skip_ws(s, i) ==
    IF i <= Len(s) /\ s[i] \in JsonWhitespace THEN skip_ws(s, i + 1) ELSE i

RECURSIVE digits_end(_, _)
digits_end(s, i) ==
    IF i <= Len(s) /\ s[i] \in Digits THEN digits_end(s, i + 1) ELSE i

json_unescape(ch) ==
    IF ch = "n" THEN "\n"
    ELSE IF ch = "t" THEN "\t"
    ELSE IF ch = "r" THEN "\r"
    ELSE IF ch = "b" THEN "BS"
    ELSE IF ch = "f" THEN "\f"
    ELSE ch

RECURSIVE parse_string(_, _, _)
parse_string(s, i, acc) ==
    IF i > Len(s) THEN JsonFail
    ELSE IF s[i] = "\"" THEN JsonOk(PyStr(acc), i + 1)
    ELSE IF s[i] = "\\"
    THEN IF i + 1 <= Len(s) /\ s[i + 1] \in {"\"", "\\", "/", "b", "f", "n", "r", "t"}
         THEN parse_string(s, i + 2, Append(acc, json_unescape(s[i + 1])))
         ELSE JsonFail
    ELSE IF s[i] \in {"\n", "\t", "\r"} THEN JsonFail
    ELSE parse_string(s, i + 1, Append(acc, s[i]))

parse_number(s, i) ==
    LET j == IF s[i] = "-" THEN i + 1 ELSE i IN
    IF ~(j <= Len(s) /\ s[j] \in Digits) THEN JsonFail
    ELSE LET int_end == IF s[j] = "0" THEN j + 1 ELSE digits_end(s, j)
             frac_end == IF int_end + 1 <= Len(s) /\ s[int_end] = "."
                            /\ s[int_end + 1] \in Digits
                         THEN digits_end(s, int_end + 1)
                         ELSE int_end
         IN  JsonOk(PyNum(SubSeq(s, i, frac_end - 1)), frac_end)

parse_literal(s, i, word, val) ==
    IF i + Len(word) - 1 <= Len(s) /\ SubSeq(s, i, i + Len(word) - 1) = word
    THEN JsonOk(val, i + Len(word))
    ELSE JsonFail

RECURSIVE parse_value(_, _)
RECURSIVE parse_elements(_, _, _)
RECURSIVE parse_members(_, _, _)

\* After "[" and one or more elements: s[i] starts the next element.
parse_elements(s, i, acc) ==
    LET v == parse_value(s, i) IN
    IF ~v.ok THEN JsonFail
    ELSE LET k == skip_ws(s, v.next) IN
         IF k > Len(s) THEN JsonFail
         ELSE IF s[k] = "]" THEN JsonOk(PyList(Append(acc, v.val)), k + 1)
         ELSE IF s[k] = "," THEN parse_elements(s, skip_ws(s, k + 1), Append(acc, v.val))
         ELSE JsonFail

\* After "{" and zero or more members: s[i] starts the next member's key.
parse_members(s, i, acc) ==
    IF ~(i <= Len(s) /\ s[i] = "\"") THEN JsonFail
    ELSE LET key == parse_string(s, i + 1, <<>>) IN
         IF ~key.ok THEN JsonFail
         ELSE LET c == skip_ws(s, key.next) IN
              IF ~(c <= Len(s) /\ s[c] = ":") THEN JsonFail
              ELSE LET v == parse_value(s, skip_ws(s, c + 1)) IN
                   IF ~v.ok THEN JsonFail
                   ELSE LET k == skip_ws(s, v.next)
                            items == Append(acc, <<key.val[2], v.val>>)
                        IN  IF k > Len(s) THEN JsonFail
                            ELSE IF s[k] = "}" THEN JsonOk(PyDict(items), k + 1)
                            ELSE IF s[k] = ","
                            THEN parse_members(s, skip_ws(s, k + 1), items)
                            ELSE JsonFail

parse_value(s, i) ==
    IF i > Len(s) THEN JsonFail
    ELSE IF s[i] = "\"" THEN parse_string(s, i + 1, <<>>)
    ELSE IF s[i] = "{"
    THEN LET k == skip_ws(s, i + 1) IN
         IF k <= Len(s) /\ s[k] = "}" THEN JsonOk(PyDict(<<>>), k + 1)
         ELSE parse_members(s, k, <<>>)
    ELSE IF s[i] = "["
    THEN LET k == skip_ws(s, i + 1) IN
         IF k <= Len(s) /\ s[k] = "]" THEN JsonOk(PyList(<<>>), k + 1)
         ELSE parse_elements(s, k, <<>>)
    ELSE IF s[i] = "t" THEN parse_literal(s, i, <<"t", "r", "u", "e">>, PyTrue)
    ELSE IF s[i] = "f" THEN parse_literal(s, i, <<"f", "a", "l", "s", "e">>, PyFalse)
    ELSE IF s[i] = "n" THEN parse_literal(s, i, <<"n", "u", "l", "l">>, PyNone)
    ELSE IF s[i] = "-" \/ s[i] \in Digits THEN parse_number(s, i)
    ELSE JsonFail

\* json.loads(text): [exc, val]; exc is "" when the text is one JSON value,
\* "TypeError" for None, "JSONDecodeError" otherwise.
json_loads(text) ==
    IF text = PyNone THEN [exc |-> "TypeError", val |-> PyNone]
    ELSE LET v == parse_value(text, skip_ws(text, 1)) IN
         IF v.ok /\ skip_ws(text, v.next) = Len(text) + 1
         THEN [exc |-> "", val |-> v.val]
         ELSE [exc |-> "JSONDecodeError", val |-> PyNone]

(***************************************************************************)
(* session.state: a function from the keys present to their values.        *)
(***************************************************************************)
Put(st, key, value) ==
    [k \in (DOMAIN st) \cup {key} |-> IF k = key THEN value ELSE st[k]]

EmptyState ==
    [k \in {} |-> PyNone]

\* types.Content(parts=[types.Part(text=...)]) as <<"content", parts>>, a part
\* as <<"part", text>>; an absent content or text is None.
Content(parts) ==
    <<"content", parts>>

Part(text) ==
    <<"part", text>>

(***************************************************************************)
(* initialize_enhanced_state (before_agent_callback of the root agent):    *)
(* [state, exc], the state after the callback and the exception that       *)
(* escapes it ("" for none).                                               *)
(***************************************************************************)
\* Faulty variant of seed_task_specific: the keys of every family are written.
seed_task_specific_all(st, request_type) ==
    Put(Put(Put(Put(st, "repository_url", PyStr(<<>>)),
                "jira_url", PyStr(<<>>)),
            "pdf_content", PyStr(<<>>)),
        "generated_script", PyStr(<<>>))

seed_task_specific(st, request_type) ==
    IF request_type = PyStr(s_git_analysis) \/ request_type = PyStr(s_git_pull)
    THEN Put(Put(Put(st, "repository_url", PyStr(<<>>)),
                 "git_changes", PyList(<<>>)),
             "affected_files", PyList(<<>>))
    ELSE IF request_type = PyStr(s_jira_analysis)
            \/ request_type = PyStr(s_jira_test_generation)
    THEN Put(Put(Put(st, "jira_url", PyStr(<<>>)),
                 "jira_requirements", PyDict(<<>>)),
             "test_scenarios", PyList(<<>>))
    ELSE IF request_type = PyStr(s_pdf_processing)
    THEN Put(Put(st, "pdf_content", PyStr(<<>>)),
             "document_analysis", PyDict(<<>>))
    ELSE IF request_type = PyStr(s_script_generation)
    THEN Put(Put(st, "script_requirements", PyDict(<<>>)),
             "generated_script", PyStr(<<>>))
    ELSE st

seed_from_request(st, request_data) ==
    LET s1 == Put(st, "user_message", dict_get(request_data, s_user_message, PyStr(<<>>)))
        s2 == Put(s1, "request_type",
                  dict_get(request_data, s_request_type, PyStr(s_general_chat)))
        s3 == Put(s2, "task", dict_get(request_data, s_task, PyStr(s_general_assistance)))
        s4 == Put(s3, "source_code", PyStr(<<>>))
        s5 == Put(s4, "language", PyStr(s_python))
        s6 == Put(s5, "test_results", PyDict(<< <<s_status, PyStr(s_UNKNOWN)>> >>))
        s7 == Put(s6, "analysis_complete", PyFalse)
    IN  seed_task_specific(s7, dict_get(request_data, s_request_type, PyStr(<<>>)))

seed_fallback(st, text) ==
    Put(Put(Put(st, "user_message", PyStr(text)),
            "request_type", PyStr(s_general_chat)),
        "task", PyStr(s_general_assistance))

\* Faulty variant of initialize_enhanced_state: the callback starts from a
\* fresh state dict instead of writing into the session's.
initialize_enhanced_state_reset(st, user_content) ==
    IF user_content = PyNone \/ user_content[2] = <<>>
    THEN [state |-> st, exc |-> ""]
    ELSE LET text == user_content[2][1][2]
             loaded == json_loads(text)
         IN  IF loaded.exc = "TypeError"
             THEN [state |-> st, exc |-> "TypeError"]
             ELSE IF loaded.exc = "JSONDecodeError" \/ loaded.val[1] # "dict"
             THEN [state |-> seed_fallback(EmptyState, text), exc |-> ""]
             ELSE [state |-> seed_from_request(EmptyState, loaded.val[2]), exc |-> ""]

initialize_enhanced_state(st, user_content) ==
    IF user_content = PyNone \/ user_content[2] = <<>>
    THEN [state |-> st, exc |-> ""]
    ELSE LET text == user_content[2][1][2]
             loaded == json_loads(text)
         IN  IF loaded.exc = "TypeError"
             THEN [state |-> st, exc |-> "TypeError"]
             ELSE IF loaded.exc = "JSONDecodeError" \/ loaded.val[1] # "dict"
             THEN [state |-> seed_fallback(st, text), exc |-> ""]
             ELSE [state |-> seed_from_request(st, loaded.val[2]), exc |-> ""]

(***************************************************************************)
(* The agents.  An LlmAgent is a stage: it reads the session state and, on *)
(* completion, stores its final text under output_key (no key: "").        *)
(* A SequentialAgent and a LoopAgent hold an ordered sub_agents list.      *)
(***************************************************************************)
LlmAgent(name, output_key) ==
    [kind |-> "llm", name |-> name, output_key |-> output_key,
     sub_agents |-> <<>>, max_iterations |-> 0]

SequentialAgent(name, sub_agents) ==
    [kind |-> "seq", name |-> name, output_key |-> "",
     sub_agents |-> sub_agents, max_iterations |-> 0]

LoopAgent(name, sub_agents, max_iterations) ==
    [kind |-> "loop", name |-> name, output_key |-> "",
     sub_agents |-> sub_agents, max_iterations |-> max_iterations]

git_analyzer_agent ==
    LlmAgent("GitAnalyzer", "git_analysis_results")

jira_integration_agent ==
    LlmAgent("JiraIntegrator", "jira_analysis_results")

pdf_processor_agent ==
    LlmAgent("PdfProcessor", "pdf_analysis_results")

script_generator_agent ==
    LlmAgent("ScriptGenerator", "script_generation_results")

strategy_planner_agent ==
    LlmAgent("StrategyPlanner", "strategy_plan")

request_router_agent ==
    LlmAgent("RequestRouter", "routing_decision")

workflow_dispatcher_agent ==
    LlmAgent("WorkflowDispatcher", "selected_workflow")

enhanced_result_summarizer ==
    LlmAgent("EnhancedResultSummarizer", "")

\* The TestMozart stages imported by the coordinator (agents/code_analyzer.py,
\* test_case_designer.py, test_implementer.py, test_runner.py,
\* debugger_and_refiner.py): named stages that write the shared state.
code_analyzer_agent ==
    LlmAgent("CodeAnalyzer", "static_analysis_report")

test_case_designer_agent ==
    LlmAgent("TestCaseDesigner", "test_case_design")

test_implementer_agent ==
    LlmAgent("TestImplementer", "generated_test_code")

test_runner_agent ==
    LlmAgent("TestRunner", "test_run_report")

debugger_and_refiner_agent ==
    LlmAgent("DebuggerAndRefiner", "refined_test_code")

\* Faulty variant of may_escalate: every stage of the loop body may call
\* exit_loop.
may_escalate_any_body_stage(agent) ==
    agent.name \in {"TestRunner", "DebuggerAndRefiner"}

\* The exit predicate of the loop: the stage that may call exit_loop
\* (tools/workflow_tools.py), which escalates out of the enclosing LoopAgent.
\* It is evaluated after an iteration, so it lies with the last body stage.
may_escalate(agent) ==
    agent.name = "DebuggerAndRefiner"

\* Faulty variant of max_iterations: one iteration more.
max_iterations_plus_one ==
    3 + 1

max_iterations ==
    3

git_workflow ==
    SequentialAgent("GitWorkflow",
        <<git_analyzer_agent, code_analyzer_agent, strategy_planner_agent>>)

jira_workflow ==
    SequentialAgent("JiraWorkflow",
        <<jira_integration_agent, test_case_designer_agent, test_implementer_agent>>)

pdf_workflow ==
    SequentialAgent("PdfWorkflow",
        <<pdf_processor_agent, strategy_planner_agent>>)

script_workflow ==
    SequentialAgent("ScriptWorkflow",
        <<script_generator_agent, test_implementer_agent>>)

TestRefinementLoop ==
    LoopAgent("TestRefinementLoop",
        <<test_runner_agent, debugger_and_refiner_agent>>, max_iterations)

test_generation_workflow ==
    SequentialAgent("TestGenerationWorkflow",
        <<code_analyzer_agent, test_case_designer_agent, test_implementer_agent,
          TestRefinementLoop>>)

enhanced_root_agent ==
    SequentialAgent("EnhancedCoordinatorAgent",
        <<request_router_agent, workflow_dispatcher_agent, enhanced_result_summarizer>>)

\* workflow_map of execute_selected_workflow, as (name, agent) items.
workflow_map ==
    << <<s_git_workflow, git_workflow>>,
       <<s_jira_workflow, jira_workflow>>,
       <<s_pdf_workflow, pdf_workflow>>,
       <<s_script_workflow, script_workflow>>,
       <<s_test_generation_workflow, test_generation_workflow>> >>

workflow_names ==
    {workflow_map[i][1] : i \in 1..Len(workflow_map)}

\* execute_selected_workflow: <<workflow_agent>>, or <<>> for None.
execute_selected_workflow(st) ==
    LET selected_workflow == IF "selected_workflow" \in DOMAIN st
                             THEN st["selected_workflow"]
                             ELSE PyStr(<<>>)
    IN  IF selected_workflow[1] = "str" /\ selected_workflow[2] \in workflow_names
        THEN <<dict_get(workflow_map, selected_workflow[2], PyNone)>>
        ELSE <<>>

(***************************************************************************)
(* Execution of an agent tree (google.adk).  SequentialAgent runs its      *)
(* sub_agents in list order.  LoopAgent runs                               *)
(*     times_looped = 0                                                    *)
(*     while not max_iterations or times_looped < max_iterations:          *)
(*         for sub_agent in sub_agents: run it; if it escalated: return    *)
(*         times_looped += 1                                               *)
(* An exception raised by a stage propagates out of every enclosing agent. *)
(* The position of a run is a stack of frames, the innermost last; idx is  *)
(* the sub-agent to run next.                                              *)
(***************************************************************************)
Frame(agent, idx, times_looped) ==
    [agent |-> agent, idx |-> idx, times_looped |-> times_looped]

Top(stack) ==
    stack[Len(stack)]

Pop(stack) ==
    SubSeq(stack, 1, Len(stack) - 1)

\* The enclosing frame resumes after the sub-agent it was running.
Return(stack) ==
    LET rest == Pop(stack) IN
    IF rest = <<>> THEN <<>>
    ELSE Append(Pop(rest), Frame(Top(rest).agent, Top(rest).idx + 1, Top(rest).times_looped))

loop_continues(agent, times_looped) ==
    agent.max_iterations = 0 \/ times_looped < agent.max_iterations

\* Control flows to the next stage: [stack, exhausted], the stack with an
\* LlmAgent as the sub-agent to run next (<<>>: the run is over), and whether
\* a loop ended on its iteration count on the way.
RECURSIVE advance(_, _)
advance(stack, exhausted) ==
    IF stack = <<>> THEN [stack |-> <<>>, exhausted |-> exhausted]
    ELSE LET f == Top(stack) IN
         IF f.idx > Len(f.agent.sub_agents)
         THEN IF f.agent.kind = "loop"
              THEN IF loop_continues(f.agent, f.times_looped + 1)
                   THEN advance(Append(Pop(stack), Frame(f.agent, 1, f.times_looped + 1)),
                                exhausted)
                   ELSE advance(Return(stack), TRUE)
              ELSE advance(Return(stack), exhausted)
         ELSE LET sub_agent == f.agent.sub_agents[f.idx] IN
              IF sub_agent.kind = "llm"
              THEN [stack |-> stack, exhausted |-> exhausted]
              ELSE advance(Append(stack, Frame(sub_agent, 1, 0)), exhausted)

\* run_async(agent): control reaches the first stage.
enter(agent) ==
    advance(<<Frame(agent, 1, 0)>>, FALSE)

\* The stage about to run.
current_stage(stack) ==
    Top(stack).agent.sub_agents[Top(stack).idx]

\* Faulty variant of after_stage: an escalation does not leave the loop.
after_stage_ignores_escalate(stack, escalate, exhausted) ==
    LET f == Top(stack) IN
    advance(Append(Pop(stack), Frame(f.agent, f.idx + 1, f.times_looped)), exhausted)

\* Faulty variant of after_stage: the next sub-agent is skipped.
after_stage_skips_next(stack, escalate, exhausted) ==
    LET f == Top(stack) IN
    IF escalate /\ f.agent.kind = "loop"
    THEN advance(Return(stack), exhausted)
    ELSE advance(Append(Pop(stack), Frame(f.agent, f.idx + 2, f.times_looped)), exhausted)

\* After the current stage completed: on to the next sub-agent, or out of
\* the enclosing LoopAgent when the stage escalated.
after_stage(stack, escalate, exhausted) ==
    LET f == Top(stack) IN
    IF escalate /\ f.agent.kind = "loop"
    THEN advance(Return(stack), exhausted)
    ELSE advance(Append(Pop(stack), Frame(f.agent, f.idx + 1, f.times_looped)), exhausted)

(***************************************************************************)
(* Inputs.                                                                 *)
(***************************************************************************)
Users ==
    {"demo_user", "other_user"}

\* The user of the browser session.
WebUsers ==
    {"web_user"}

\* Messages given to process_user_message.
RequestMessages ==
    {msg_hello, msg_cmd_git, msg_cmd_pdf}

\* Contents the web runner hands to the root agent: the text typed in the
\* browser, as it is.
raw_object ==
    <<"{","\"","r","e","q","u","e","s","t","_","t","y","p","e","\"",":"," ",
      "\"","s","c","r","i","p","t","_","g","e","n","e","r","a","t","i","o","n","\"","}">>

RawContents ==
    {Content(<<Part(msg_hello)>>), Content(<<Part(raw_object)>>),
     Content(<<Part(<<"4", "2">>)>>), Content(<<>>), Content(<<Part(PyNone)>>)}

\* Final texts the WorkflowDispatcher model may answer with.
DispatcherOutputs ==
    workflow_names \cup {s_general_chat}

\* asyncio.get_event_loop().time() at the n-th request.
loop_time(n) ==
    PyNum(<<"1", DigitChars[(n % 10) + 1], ".", "5">>)

Calls ==
    {1}

(***************************************************************************)
(* State.                                                                  *)
(***************************************************************************)
VARIABLES
    active_sessions,  \* ChatbotOrchestrator.active_sessions: user id -> session id, 0: no entry
    web_sessions,     \* the web runner's session of each user id, 0: none yet
    sessions,         \* the sessions created, by session id: [user_id, state]
    call,             \* each call in flight or last finished: its position and its run
    served,           \* requests begun
    cl_message,       \* the classifier on its own: the message given,
    cl_result,        \*   and the request type returned (<<>>: not yet called)
    chat,             \* main: position of the chat loop, last input, last line printed
    fn                \* a function on its own: its name, arguments, locals and result

vars ==
    <<active_sessions, web_sessions, sessions, call, served,
      cl_message, cl_result, chat, fn>>

\* No function under way.
NoCall ==
    [name |-> ""]

\* main before its first statement.
ChatStart ==
    [pc |-> "start", user_input |-> <<>>, printed |-> "", lines |-> 0,
     pending |-> 0, errors |-> 0, interrupted |-> FALSE]

IdleCall ==
    [pc |-> "idle", api |-> "", user_id |-> "", message |-> <<>>,
     request_type |-> <<>>, content |-> PyNone, session_id |-> 0, serial |-> 0,
     root |-> "", stack |-> <<>>, exhausted |-> FALSE, results |-> <<>>,
     status |-> ""]

Init ==
    /\ active_sessions = [u \in Users |-> 0]
    /\ web_sessions = [u \in WebUsers |-> 0]
    /\ sessions = <<>>
    /\ call = [c \in Calls |-> IdleCall]
    /\ served = 0
    /\ cl_message = <<>>
    /\ cl_result = <<>>
    /\ chat = ChatStart
    /\ fn = NoCall

Finished(c) ==
    call[c].pc \in {"idle", "done", "raised"}

\* _format_request and types.Content(role="user", parts=[types.Part(text=...)]).
_format_request(message, request_type, n) ==
    json_dumps(<< <<s_user_message, PyStr(message)>>,
                  <<s_request_type, PyStr(request_type)>>,
                  <<s_timestamp, loop_time(n)>>,
                  <<s_task, PyStr(task_for(request_type))>> >>)

\* Faulty variant of start_chat_run: the message is handed to run_async
\* without being classified.
start_chat_run_unclassified(c, user_id, message, session_id, n) ==
    call' = [call EXCEPT ![c] =
                [IdleCall EXCEPT !.pc = "callback", !.api = "chat",
                                 !.user_id = user_id, !.message = message,
                                 !.content = Content(<<Part(message)>>),
                                 !.session_id = session_id, !.serial = n,
                                 !.root = enhanced_root_agent.name,
                                 !.status = "running"]]

\* process_user_message from the classification to the call of run_async.
start_chat_run(c, user_id, message, session_id, n) ==
    LET request_type == _detect_request_type(message)
        formatted_request == _format_request(message, request_type, n)
    IN  call' = [call EXCEPT ![c] =
                       [IdleCall EXCEPT !.pc = "callback", !.api = "chat",
                                        !.user_id = user_id, !.message = message,
                                        !.request_type = request_type,
                                        !.content = Content(<<Part(formatted_request)>>),
                                        !.session_id = session_id, !.serial = n,
                                        !.root = enhanced_root_agent.name,
                                        !.status = "running"]]

\* Faulty variant of process_user_message: a session is created at every
\* request.
process_user_message_always_create(c, user_id, message) ==
    /\ Finished(c)
    /\ served < MaxRequests
    /\ served' = served + 1
    /\ call' = [call EXCEPT ![c] =
                   [IdleCall EXCEPT !.pc = "create_session", !.api = "chat",
                                    !.user_id = user_id, !.message = message,
                                    !.serial = served + 1]]
    /\ UNCHANGED <<active_sessions, web_sessions, sessions, cl_message, cl_result, chat, fn>>

\* process_user_message(user_id, message), up to its first await.
process_user_message(c, user_id, message) ==
    /\ Finished(c)
    /\ served < MaxRequests
    /\ served' = served + 1
    /\ IF active_sessions[user_id] = 0
       THEN call' = [call EXCEPT ![c] =
                        [IdleCall EXCEPT !.pc = "create_session", !.api = "chat",
                                         !.user_id = user_id, !.message = message,
                                         !.serial = served + 1]]
       ELSE start_chat_run(c, user_id, message, active_sessions[user_id], served + 1)
    /\ UNCHANGED <<active_sessions, web_sessions, sessions, cl_message, cl_result, chat, fn>>

\* Faulty variant of create_session: one session is shared by every user.
create_session_shared(c) ==
    /\ call[c].pc = "create_session"
    /\ sessions' = IF sessions = <<>>
                   THEN <<[user_id |-> call[c].user_id, state |-> EmptyState]>>
                   ELSE sessions
    /\ active_sessions' = [active_sessions EXCEPT ![call[c].user_id] = 1]
    /\ start_chat_run(c, call[c].user_id, call[c].message, 1, call[c].serial)
    /\ UNCHANGED <<web_sessions, served, cl_message, cl_result, chat, fn>>

\* create_session: the session service returns the new session, which is
\* stored in active_sessions; process_user_message goes on.
create_session(c) ==
    /\ call[c].pc = "create_session"
    /\ sessions' = Append(sessions, [user_id |-> call[c].user_id, state |-> EmptyState])
    /\ active_sessions' = [active_sessions EXCEPT ![call[c].user_id] = Len(sessions) + 1]
    /\ start_chat_run(c, call[c].user_id, call[c].message, Len(sessions) + 1, call[c].serial)
    /\ UNCHANGED <<web_sessions, served, cl_message, cl_result, chat, fn>>

\* The web runner (web_main.py) runs the root agent on the user's session
\* with the content received.
web_request(c, user_id, content) ==
    /\ Finished(c)
    /\ served < MaxRequests
    /\ served' = served + 1
    /\ LET fresh == web_sessions[user_id] = 0
           sid == IF fresh THEN Len(sessions) + 1 ELSE web_sessions[user_id]
       IN  /\ sessions' = IF fresh
                          THEN Append(sessions, [user_id |-> user_id, state |-> EmptyState])
                          ELSE sessions
           /\ web_sessions' = [web_sessions EXCEPT ![user_id] = sid]
           /\ call' = [call EXCEPT ![c] =
                          [IdleCall EXCEPT !.pc = "callback", !.api = "web",
                                           !.user_id = user_id, !.content = content,
                                           !.session_id = sid, !.serial = served + 1,
                                           !.root = enhanced_root_agent.name,
                                           !.status = "running"]]
    /\ UNCHANGED <<active_sessions, cl_message, cl_result, chat, fn>>

\* The selected workflow is executed: execute_selected_workflow resolves the
\* agent from the session state, and the agent returned is run on the session.
\* The source files hold no caller of execute_selected_workflow; the run of
\* the agent it returns is the one the specification describes (4.3, 4.4).
run_selected_workflow(c, session_id) ==
    /\ Finished(c)
    /\ served < MaxRequests
    /\ served' = served + 1
    /\ LET found == execute_selected_workflow(sessions[session_id].state)
           base == [IdleCall EXCEPT !.api = "workflow",
                                    !.user_id = sessions[session_id].user_id,
                                    !.session_id = session_id, !.serial = served + 1]
       IN  IF found = <<>>
           THEN call' = [call EXCEPT ![c] = [base EXCEPT !.pc = "done"]]
           ELSE LET entered == enter(found[1]) IN
                call' = [call EXCEPT ![c] =
                            [base EXCEPT !.pc = "stage", !.root = found[1].name,
                                         !.stack = entered.stack,
                                         !.exhausted = entered.exhausted,
                                         !.status = "running"]]
    /\ UNCHANGED <<active_sessions, web_sessions, sessions, cl_message, cl_result, chat, fn>>

\* The root agent's before_agent_callback, then control reaches the first stage.
before_agent_callback(c) ==
    /\ call[c].pc = "callback"
    /\ LET sid == call[c].session_id
           seeded == initialize_enhanced_state(sessions[sid].state, call[c].content)
           entered == enter(enhanced_root_agent)
       IN  IF seeded.exc # ""
           THEN /\ call' = [call EXCEPT ![c].pc = "raised", ![c].status = "failed"]
                /\ UNCHANGED sessions
           ELSE /\ sessions' = [sessions EXCEPT ![sid].state = seeded.state]
                /\ call' = [call EXCEPT ![c].pc = "stage",
                                        ![c].stack = entered.stack,
                                        ![c].exhausted = entered.exhausted]
    /\ UNCHANGED <<active_sessions, web_sessions, served, cl_message, cl_result, chat, fn>>

\* The final text of a stage: the dispatcher names a workflow; any other
\* text is opaque and tagged with its stage, request and position in the run.
stage_outputs(stage, serial, n) ==
    IF stage.name = workflow_dispatcher_agent.name
    THEN {PyStr(name) : name \in DispatcherOutputs}
    ELSE {<<"out", stage.name, serial, n>>}

\* What the run does once a stage has completed with the given final text.
stage_completed(c, output, escalate) ==
    LET sid == call[c].session_id
        stage == current_stage(call[c].stack)
        next == after_stage(call[c].stack, escalate, call[c].exhausted)
        result == [stage |-> stage.name, status |-> "success", escalate |-> escalate,
                   read |-> sessions[sid].state,
                   delta |-> IF stage.output_key = "" THEN <<>>
                             ELSE <<stage.output_key, output>>]
    IN  /\ sessions' = IF stage.output_key = "" THEN sessions
                       ELSE [sessions EXCEPT ![sid].state =
                                Put(sessions[sid].state, stage.output_key, output)]
        /\ call' = [call EXCEPT ![c].results = Append(call[c].results, result),
                                ![c].stack = next.stack,
                                ![c].exhausted = next.exhausted,
                                ![c].pc = IF next.stack = <<>> THEN "done" ELSE "stage",
                                ![c].status = IF next.stack # <<>> THEN "running"
                                              ELSE IF next.exhausted THEN "exhausted"
                                              ELSE "completed"]

\* A stage runs to completion.
stage_succeeds(c) ==
    /\ call[c].pc = "stage"
    /\ \E output \in stage_outputs(current_stage(call[c].stack), call[c].serial,
                                   Len(call[c].results) + 1) :
           stage_completed(c, output, FALSE)
    /\ UNCHANGED <<active_sessions, web_sessions, served, cl_message, cl_result, chat, fn>>

\* A stage completes having called exit_loop.
stage_escalates(c) ==
    /\ call[c].pc = "stage"
    /\ may_escalate(current_stage(call[c].stack))
    /\ \E output \in stage_outputs(current_stage(call[c].stack), call[c].serial,
                                   Len(call[c].results) + 1) :
           stage_completed(c, output, TRUE)
    /\ UNCHANGED <<active_sessions, web_sessions, served, cl_message, cl_result, chat, fn>>

\* Faulty variant of stage_fails: the failure is recorded and the run goes on
\* with the next sub-agent.
stage_fails_continue(c) ==
    /\ call[c].pc = "stage"
    /\ LET stage == current_stage(call[c].stack)
           next == after_stage(call[c].stack, FALSE, call[c].exhausted)
           result == [stage |-> stage.name, status |-> "failure", escalate |-> FALSE,
                      read |-> sessions[call[c].session_id].state, delta |-> <<>>]
       IN  call' = [call EXCEPT ![c].results = Append(call[c].results, result),
                                ![c].stack = next.stack,
                                ![c].exhausted = next.exhausted,
                                ![c].pc = IF next.stack = <<>> THEN "raised" ELSE "stage",
                                ![c].status = "failed"]
    /\ UNCHANGED <<active_sessions, web_sessions, sessions, served, cl_message, cl_result, chat, fn>>

\* Faulty variant of stage_fails: a failure inside the loop ends the iteration
\* and the loop goes on with the next one.
stage_fails_next_iteration(c) ==
    /\ call[c].pc = "stage"
    /\ LET stage == current_stage(call[c].stack)
           f == Top(call[c].stack)
           in_loop == f.agent.kind = "loop"
           next == advance(Append(Pop(call[c].stack),
                                  Frame(f.agent, Len(f.agent.sub_agents) + 1, f.times_looped)),
                           call[c].exhausted)
           result == [stage |-> stage.name, status |-> "failure", escalate |-> FALSE,
                      read |-> sessions[call[c].session_id].state, delta |-> <<>>]
       IN  call' = [call EXCEPT ![c].results = Append(call[c].results, result),
                                ![c].stack = IF in_loop THEN next.stack ELSE call[c].stack,
                                ![c].exhausted = IF in_loop THEN next.exhausted
                                                 ELSE call[c].exhausted,
                                ![c].pc = IF in_loop /\ next.stack # <<>> THEN "stage"
                                          ELSE "raised",
                                ![c].status = "failed"]
    /\ UNCHANGED <<active_sessions, web_sessions, sessions, served, cl_message, cl_result, chat, fn>>

\* Faulty variant of stage_fails: the writes of the run are rolled back.
stage_fails_rollback(c) ==
    /\ call[c].pc = "stage"
    /\ LET stage == current_stage(call[c].stack)
           sid == call[c].session_id
           result == [stage |-> stage.name, status |-> "failure", escalate |-> FALSE,
                      read |-> sessions[sid].state, delta |-> <<>>]
       IN  /\ call' = [call EXCEPT ![c].results = Append(call[c].results, result),
                                   ![c].pc = "raised",
                                   ![c].status = "failed"]
           /\ sessions' = IF call[c].results = <<>> THEN sessions
                          ELSE [sessions EXCEPT ![sid].state = call[c].results[1].read]
    /\ UNCHANGED <<active_sessions, web_sessions, served, cl_message, cl_result, chat, fn>>

\* A stage raises: the exception leaves run_async, and the run is over.
stage_fails(c) ==
    /\ call[c].pc = "stage"
    /\ LET stage == current_stage(call[c].stack)
           result == [stage |-> stage.name, status |-> "failure", escalate |-> FALSE,
                      read |-> sessions[call[c].session_id].state, delta |-> <<>>]
       IN  call' = [call EXCEPT ![c].results = Append(call[c].results, result),
                                ![c].pc = "raised",
                                ![c].status = "failed"]
    /\ UNCHANGED <<active_sessions, web_sessions, sessions, served, cl_message, cl_result, chat, fn>>

Next ==
    \E c \in Calls :
        \/ \E user_id \in Users, message \in RequestMessages :
               process_user_message(c, user_id, message)
        \/ create_session(c)
        \/ \E user_id \in WebUsers, content \in RawContents :
               web_request(c, user_id, content)
        \/ \E session_id \in 1..Len(sessions) : run_selected_workflow(c, session_id)
        \/ before_agent_callback(c)
        \/ stage_succeeds(c)
        \/ stage_escalates(c)
        \/ stage_fails(c)

Spec ==
    Init /\ [][Next]_vars

(***************************************************************************)
(* Overlapping calls of process_user_message: two tasks of one event loop  *)
(* (asyncio.gather of two calls).  A task runs without interruption        *)
(* between two awaits, which is the grain of the actions above: the await  *)
(* of create_session (line 47) and each step of the async for over         *)
(* run_async (line 62).                                                    *)
(***************************************************************************)
ConcurrentCalls ==
    {1, 2}

ConcurrentMessages ==
    {msg_hello, msg_cmd_git}

InitConcurrent ==
    /\ active_sessions = [u \in Users |-> 0]
    /\ web_sessions = [u \in WebUsers |-> 0]
    /\ sessions = <<>>
    /\ call = [c \in ConcurrentCalls |-> IdleCall]
    /\ served = 0
    /\ cl_message = <<>>
    /\ cl_result = <<>>
    /\ chat = ChatStart
    /\ fn = NoCall

\* Each task makes one call.
NextConcurrent ==
    \E c \in ConcurrentCalls :
        \/ /\ call[c].pc = "idle"
           /\ \E user_id \in Users, message \in ConcurrentMessages :
                  process_user_message(c, user_id, message)
        \/ create_session(c)
        \/ before_agent_callback(c)
        \/ stage_succeeds(c)
        \/ stage_fails(c)

SpecConcurrent ==
    InitConcurrent /\ [][NextConcurrent]_vars

(***************************************************************************)
(* main: the interactive chat loop of demo_user.  chat.pc is "start"       *)
(* before the session is created, "input" at the prompt, "call" while      *)
(* process_user_message is awaited, and "ended" after the loop.            *)
(***************************************************************************)
\* Lines read at the prompt in a behaviour.
MaxInputs == 3

Whitespace ==
    {" ", "\t", "\n", "\r"}

\* str.strip()
RECURSIVE str_lstrip(_)
str_lstrip(s) ==
    IF s # <<>> /\ Head(s) \in Whitespace THEN str_lstrip(Tail(s)) ELSE s

RECURSIVE str_rstrip(_)
str_rstrip(s) ==
    IF s # <<>> /\ s[Len(s)] \in Whitespace
    THEN str_rstrip(SubSeq(s, 1, Len(s) - 1))
    ELSE s

str_strip(s) ==
    str_rstrip(str_lstrip(s))

exit_words ==
    { <<"e","x","i","t">>, <<"q","u","i","t">>, <<"b","y","e">> }

\* Lines typed at the prompt.
InputLines ==
    { <<"e","x","i","t">>, <<"Q","U","I","T">>, <<" ","b","y","e"," ">>,
      <<>>, <<" ","\t"," ">>,
      <<"e","x","i","t"," ","n","o","w">>, <<" ","h","e","l","l","o">>,
      msg_cmd_git }

\* user_id = "demo_user"; session_id = await orchestrator.create_session(user_id)
main_create_session ==
    /\ chat.pc = "start"
    /\ sessions' = Append(sessions, [user_id |-> "demo_user", state |-> EmptyState])
    /\ active_sessions' = [active_sessions EXCEPT !["demo_user"] = Len(sessions) + 1]
    /\ chat' = [chat EXCEPT !.pc = "input", !.printed = "Created session"]
    /\ UNCHANGED <<web_sessions, call, served, cl_message, cl_result, fn>>

\* One line is read at the prompt: the loop ends on exit/quit/bye, goes
\* back to the prompt on an empty line, and calls the orchestrator otherwise.
main_input(line) ==
    /\ chat.pc = "input"
    /\ chat.lines < MaxInputs
    /\ LET user_input == str_strip(line) IN
       IF str_lower(user_input) \in exit_words
       THEN chat' = [chat EXCEPT !.pc = "ended", !.user_input = user_input,
                                 !.lines = @ + 1, !.printed = "Goodbye"]
       ELSE IF user_input = <<>>
       THEN chat' = [chat EXCEPT !.user_input = user_input, !.lines = @ + 1]
       ELSE /\ served < MaxRequests
            /\ chat' = [chat EXCEPT !.pc = "call", !.user_input = user_input,
                                    !.lines = @ + 1, !.pending = served + 1,
                                    !.printed = "Processing"]
    /\ UNCHANGED <<active_sessions, web_sessions, sessions, call, served,
                   cl_message, cl_result, fn>>

\* input() raises EOFError, which the handler of Exception reports.
main_input_eof ==
    /\ chat.pc = "input"
    /\ chat.lines < MaxInputs
    /\ chat' = [chat EXCEPT !.lines = @ + 1, !.errors = @ + 1, !.printed = "Error"]
    /\ UNCHANGED <<active_sessions, web_sessions, sessions, call, served,
                   cl_message, cl_result, fn>>

\* response = await orchestrator.process_user_message(user_id, user_input)
main_process_user_message ==
    /\ chat.pc = "call"
    /\ served < chat.pending
    /\ process_user_message(1, "demo_user", chat.user_input)

\* process_user_message returned: the response is printed.
main_response ==
    /\ chat.pc = "call"
    /\ served = chat.pending
    /\ call[1].pc = "done"
    /\ chat' = [chat EXCEPT !.pc = "input", !.printed = "Response"]
    /\ UNCHANGED <<active_sessions, web_sessions, sessions, call, served,
                   cl_message, cl_result, fn>>

\* Faulty variant of main_except: the exception leaves main.
main_except_uncaught ==
    /\ chat.pc = "call"
    /\ served = chat.pending
    /\ call[1].pc = "raised"
    /\ chat' = [chat EXCEPT !.pc = "ended"]
    /\ UNCHANGED <<active_sessions, web_sessions, sessions, call, served,
                   cl_message, cl_result, fn>>

\* process_user_message raised: except Exception reports it and the loop
\* goes on.
main_except ==
    /\ chat.pc = "call"
    /\ served = chat.pending
    /\ call[1].pc = "raised"
    /\ chat' = [chat EXCEPT !.pc = "input", !.errors = @ + 1, !.printed = "Error"]
    /\ UNCHANGED <<active_sessions, web_sessions, sessions, call, served,
                   cl_message, cl_result, fn>>

\* A keyboard interrupt at the prompt, or while the call is awaited: the
\* loop is over.
main_keyboard_interrupt ==
    /\ \/ chat.pc = "input"
       \/ chat.pc = "call" /\ served = chat.pending /\ ~Finished(1)
    /\ chat' = [chat EXCEPT !.pc = "ended", !.interrupted = TRUE,
                            !.printed = IF chat.pc = "input" THEN "Goodbye" ELSE @]
    /\ UNCHANGED <<active_sessions, web_sessions, sessions, call, served,
                   cl_message, cl_result, fn>>

\* The steps of the awaited call.
main_run_step ==
    /\ chat.pc = "call"
    /\ served = chat.pending
    /\ \/ before_agent_callback(1)
       \/ stage_succeeds(1)
       \/ stage_fails(1)

NextMain ==
    \/ main_create_session
    \/ \E line \in InputLines : main_input(line)
    \/ main_input_eof
    \/ main_process_user_message
    \/ main_run_step
    \/ main_response
    \/ main_except
    \/ main_keyboard_interrupt

SpecMain ==
    Init /\ [][NextMain]_vars

(***************************************************************************)
(* Runs of the selected workflow on their own: a session on which a chat   *)
(* request has been seeded, routed and dispatched, and then runs of the    *)
(* agent execute_selected_workflow returns, every stage invocation         *)
(* returning (weak fairness of the stage steps).                           *)
(***************************************************************************)
dispatched_state(selected_workflow) ==
    LET request == _format_request(msg_cmd_test, _detect_request_type(msg_cmd_test), 1)
        seeded == initialize_enhanced_state(EmptyState, Content(<<Part(request)>>)).state
        routed == Put(seeded, request_router_agent.output_key,
                      <<"out", request_router_agent.name, 1, 1>>)
    IN  Put(routed, workflow_dispatcher_agent.output_key, PyStr(selected_workflow))

InitRun ==
    /\ active_sessions = [u \in Users |-> IF u = "demo_user" THEN 1 ELSE 0]
    /\ web_sessions = [u \in WebUsers |-> 0]
    /\ \E selected_workflow \in workflow_names :
           sessions = <<[user_id |-> "demo_user",
                         state |-> dispatched_state(selected_workflow)]>>
    /\ call = [c \in Calls |-> IdleCall]
    /\ served = 0
    /\ cl_message = <<>>
    /\ cl_result = <<>>
    /\ chat = ChatStart
    /\ fn = NoCall

stage_step ==
    \E c \in Calls : stage_succeeds(c) \/ stage_escalates(c) \/ stage_fails(c)

NextRun ==
    \/ \E c \in Calls : run_selected_workflow(c, 1)
    \/ stage_step

SpecRun ==
    InitRun /\ [][NextRun]_vars /\ WF_vars(stage_step)

(***************************************************************************)
(* process_user_message on messages that exercise json.dumps and           *)
(* json.loads: quotes, backslashes, control characters, a message that is  *)
(* itself a JSON object, and messages of several request types.            *)
(***************************************************************************)
msg_quoted ==
    <<"s","a","y"," ","\"","h","i","\""," ","t","o"," ","c",":","\\","d">>

msg_lines ==
    <<"a","\n","b","\t","c","\r","d","/","e">>

RoundTripMessages ==
    {msg_empty, msg_hello, msg_quoted, msg_lines, raw_object, msg_cmd_jira,
     msg_cmd_script, msg_cmd_test, msg_cmd_code}

NextSeed ==
    \E c \in Calls :
        \/ \E message \in RoundTripMessages :
               process_user_message(c, "demo_user", message)
        \/ create_session(c)
        \/ before_agent_callback(c)
        \/ stage_succeeds(c)
        \/ stage_fails(c)

SpecSeed ==
    Init /\ [][NextSeed]_vars

(***************************************************************************)
(* process_user_message, lines 60-71: the loop over the events of          *)
(* run_async that builds final_output.  An event is [has_content, content] *)
(* (an event class may have no content attribute); the events of a run are *)
(* drawn from EventKinds.  fn.pc is "loop" inside the async for,           *)
(* "returned" after the return and "raised" when an exception left the     *)
(* function.                                                               *)
(***************************************************************************)
\* Events of one run.
MaxEvents == 3

Event(content) ==
    [has_content |-> TRUE, content |-> content]

EventKinds ==
    {[has_content |-> FALSE, content |-> PyNone],
     Event(PyNone),
     Event(Content(<<>>)),
     Event(Content(<<Part(<<"a">>)>>)),
     Event(Content(<<Part(<<"b", "c">>), Part(<<"z">>)>>)),
     Event(Content(<<Part(<<>>)>>)),
     Event(Content(<<Part(PyNone), Part(<<"y">>)>>))}

InitResponse ==
    /\ active_sessions = [u \in Users |-> 0]
    /\ web_sessions = [u \in WebUsers |-> 0]
    /\ sessions = <<>>
    /\ call = [c \in Calls |-> IdleCall]
    /\ served = 0
    /\ cl_message = <<>>
    /\ cl_result = <<>>
    /\ chat = ChatStart
    /\ \E events \in UNION {[1..n -> EventKinds] : n \in 0..MaxEvents} :
           fn = [name |-> "process_user_message", pc |-> "loop", events |-> events,
                 next |-> 1, final_output |-> <<>>]

\* Faulty variant of first_part_text: the text of the last part.
last_part_text(content) ==
    content[2][Len(content[2])][2]

\* event.content.parts[0].text
first_part_text(content) ==
    content[2][1][2]

\* The two tests of lines 67-68.
event_carries_text(event) ==
    /\ event.has_content /\ event.content # PyNone
    /\ event.content[2] # <<>>

\* One turn of the async for: final_output += event.content.parts[0].text,
\* a TypeError when that text is None.
response_event ==
    /\ fn.name = "process_user_message"
    /\ fn.pc = "loop"
    /\ fn.next <= Len(fn.events)
    /\ LET event == fn.events[fn.next] IN
       IF ~event_carries_text(event)
       THEN fn' = [fn EXCEPT !.next = fn.next + 1]
       ELSE IF first_part_text(event.content) = PyNone
       THEN fn' = [fn EXCEPT !.pc = "raised"]
       ELSE fn' = [fn EXCEPT !.next = fn.next + 1,
                             !.final_output = fn.final_output
                                              \o first_part_text(event.content)]
    /\ UNCHANGED <<active_sessions, web_sessions, sessions, call, served,
                   cl_message, cl_result, chat>>

\* return final_output, once run_async is exhausted.
response_return ==
    /\ fn.name = "process_user_message"
    /\ fn.pc = "loop"
    /\ fn.next > Len(fn.events)
    /\ fn' = [fn EXCEPT !.pc = "returned"]
    /\ UNCHANGED <<active_sessions, web_sessions, sessions, call, served,
                   cl_message, cl_result, chat>>

NextResponse ==
    \/ response_event
    \/ response_return

SpecResponse ==
    InitResponse /\ [][NextResponse]_vars

(***************************************************************************)
(* tools/git_tools.py: clone_repository and analyze_git_changes.  What the *)
(* operating system answers (mkdtemp, the git processes, the file system)  *)
(* is an argument os of the operators.  A function's outcome is            *)
(* [exc, value]: the exception that leaves it ("" for none) and the value  *)
(* returned.                                                               *)
(***************************************************************************)
Completed(returncode, stdout, stderr) ==
    [kind |-> "completed", exc |-> "", returncode |-> returncode,
     stdout |-> stdout, stderr |-> stderr]

\* subprocess.run raising instead of returning.
RunRaises(exc) ==
    [kind |-> "raises", exc |-> exc, returncode |-> 0, stdout |-> <<>>, stderr |-> <<>>]

Returns(value) ==
    [exc |-> "", value |-> value]

Raises(exc) ==
    [exc |-> exc, value |-> <<>>]

\* str.split(sep)
RECURSIVE str_split(_, _)
str_split(s, sep) ==
    IF \A i \in 1..Len(s) : s[i] # sep THEN <<s>>
    ELSE LET i == CHOOSE i \in 1..Len(s) :
                      s[i] = sep /\ \A j \in 1..(i - 1) : s[j] # sep
         IN  <<SubSeq(s, 1, i - 1)>> \o str_split(SubSeq(s, i + 1, Len(s)), sep)

clone_repository_try(repository_url, branch, target_dir, os) ==
    IF target_dir = PyNone /\ os.mkdtemp.exc # ""
    THEN Raises(os.mkdtemp.exc)
    ELSE LET dir == IF target_dir = PyNone THEN os.mkdtemp.path ELSE target_dir
             result == os.clone
             commit_result == os.rev_parse
         IN  IF result.kind = "raises" THEN Raises(result.exc)
             ELSE IF result.returncode # 0
             THEN Returns([status |-> "error",
                           message |-> <<"Failed to clone repository: ", result.stderr>>,
                           local_path |-> <<>>])
             ELSE IF commit_result.kind = "raises" THEN Raises(commit_result.exc)
             ELSE Returns([status |-> "success",
                           message |-> <<"Successfully cloned repository to ", dir>>,
                           local_path |-> dir,
                           repository_url |-> repository_url,
                           branch |-> branch,
                           commit_hash |-> IF commit_result.returncode = 0
                                           THEN str_strip(commit_result.stdout)
                                           ELSE <<>>])

clone_repository(repository_url, branch, target_dir, os) ==
    LET try == clone_repository_try(repository_url, branch, target_dir, os) IN
    IF try.exc = "" THEN try
    ELSE IF try.exc = "TimeoutExpired"
    THEN Returns([status |-> "error", message |-> <<"Repository clone timed out">>,
                  local_path |-> <<>>])
    ELSE Returns([status |-> "error",
                  message |-> <<"Error cloning repository: ", try.exc>>,
                  local_path |-> <<>>])

change_type_map ==
    << <<"A", "added">>, <<"M", "modified">>, <<"D", "deleted">>,
       <<"R", "renamed">>, <<"C", "copied">> >>

change_type_of(code) ==
    IF \E i \in 1..Len(change_type_map) : change_type_map[i][1] = code
    THEN (CHOOSE pair \in {change_type_map[i] : i \in 1..Len(change_type_map)} :
              pair[1] = code)[2]
    ELSE "unknown"

\* The loop over the lines of git diff --name-status: [exc, value] with the
\* changes collected, or the IndexError of status[0] on an empty status.
RECURSIVE diff_changes(_)
diff_changes(lines) ==
    IF lines = <<>> THEN Returns(<<>>)
    ELSE LET line == Head(lines)
             parts == str_split(line, "\t")
             rest == diff_changes(Tail(lines))
         IN  IF line = <<>> \/ Len(parts) < 2 THEN rest
             ELSE IF parts[1] = <<>> THEN Raises("IndexError")
             ELSE IF rest.exc # "" THEN rest
             ELSE Returns(<<[file_path |-> parts[2],
                             change_type |-> change_type_of(parts[1][1]),
                             status_code |-> parts[1]]>> \o rest.value)

analyze_git_changes_try(repository_path, since_commit, max_commits, os) ==
    IF ~os.exists \/ ~os.git_exists
    THEN Returns([status |-> "error", message |-> <<"Invalid Git repository path">>,
                  changes |-> <<>>])
    ELSE LET log_result == os.log
             diff_result == os.diff
             stats_result == os.stat
         IN  IF log_result.kind = "raises" THEN Raises(log_result.exc)
             ELSE IF diff_result.kind = "raises" THEN Raises(diff_result.exc)
             ELSE LET commit_messages ==
                          IF str_strip(log_result.stdout) # <<>>
                          THEN str_split(str_strip(log_result.stdout), "\n")
                          ELSE <<>>
                      changes ==
                          IF str_strip(diff_result.stdout) # <<>>
                          THEN diff_changes(str_split(str_strip(diff_result.stdout), "\n"))
                          ELSE Returns(<<>>)
                  IN  IF changes.exc # "" THEN Raises(changes.exc)
                      ELSE IF stats_result.kind = "raises" THEN Raises(stats_result.exc)
                      ELSE Returns(
                          [status |-> "success",
                           changes |-> changes.value,
                           affected_files |-> [i \in 1..Len(changes.value) |->
                                                   changes.value[i].file_path],
                           commit_messages |-> commit_messages,
                           stats |-> str_strip(stats_result.stdout),
                           total_files_changed |-> Len(changes.value),
                           summary |-> <<"Analyzed ", Len(commit_messages),
                                         " commits affecting ", Len(changes.value),
                                         " files">>])

analyze_git_changes(repository_path, since_commit, max_commits, os) ==
    LET try == analyze_git_changes_try(repository_path, since_commit, max_commits, os) IN
    IF try.exc = "" THEN try
    ELSE Returns([status |-> "error",
                  message |-> <<"Error analyzing Git changes: ", try.exc>>,
                  changes |-> <<>>])

\* What a git process may answer.
git_fatal ==
    <<"f","a","t","a","l">>

GitOutputs ==
    { <<>>,
      <<"M","\t","a",".","p","y","\n">>,
      <<"A","\t","b","\n","D","\t","c","\n">>,
      <<"M","\t","a","\n","\t","d","\n">>,
      <<"a","b","c","1","\n">> }

CloneRuns ==
    {Completed(0, <<>>, <<>>), Completed(128, <<>>, git_fatal),
     RunRaises("TimeoutExpired"), RunRaises("FileNotFoundError")}

GitRuns ==
    {Completed(0, stdout, <<>>) : stdout \in GitOutputs}
    \cup {Completed(128, <<>>, git_fatal), RunRaises("FileNotFoundError")}

tmp_dir ==
    <<"/","t","m","p","/","g">>

CloneSystems ==
    [mkdtemp : {[exc |-> "", path |-> tmp_dir], [exc |-> "OSError", path |-> <<>>]},
     clone : CloneRuns,
     rev_parse : {Completed(0, <<"a","b","c","1","\n">>, <<>>),
                  Completed(128, <<>>, git_fatal), RunRaises("FileNotFoundError")}]

AnalyzeSystems ==
    [exists : BOOLEAN, git_exists : BOOLEAN,
     log : {Completed(0, <<"a","b","c","1","\n">>, <<>>), Completed(128, <<>>, git_fatal)},
     diff : GitRuns,
     stat : {Completed(0, <<"1"," ","f","i","l","e","\n">>, <<>>),
             Completed(128, <<>>, git_fatal), RunRaises("FileNotFoundError")}]

InitGit ==
    /\ active_sessions = [u \in Users |-> 0]
    /\ web_sessions = [u \in WebUsers |-> 0]
    /\ sessions = <<>>
    /\ call = [c \in Calls |-> IdleCall]
    /\ served = 0
    /\ cl_message = <<>>
    /\ cl_result = <<>>
    /\ chat = ChatStart
    /\ \/ \E target_dir \in {PyNone, <<"/","r">>}, os \in CloneSystems :
              fn = [name |-> "clone_repository", target_dir |-> target_dir,
                    since_commit |-> PyNone, os |-> os, done |-> FALSE,
                    outcome |-> Raises("")]
       \/ \E since_commit \in {PyNone, <<"a","b","c","1">>}, os \in AnalyzeSystems :
              fn = [name |-> "analyze_git_changes", target_dir |-> PyNone,
                    since_commit |-> since_commit, os |-> os, done |-> FALSE,
                    outcome |-> Raises("")]

call_clone_repository ==
    /\ fn.name = "clone_repository"
    /\ ~fn.done
    /\ fn' = [fn EXCEPT !.done = TRUE,
                        !.outcome = clone_repository(<<"u">>, <<"m","a","i","n">>,
                                                     fn.target_dir, fn.os)]
    /\ UNCHANGED <<active_sessions, web_sessions, sessions, call, served,
                   cl_message, cl_result, chat>>

call_analyze_git_changes ==
    /\ fn.name = "analyze_git_changes"
    /\ ~fn.done
    /\ fn' = [fn EXCEPT !.done = TRUE,
                        !.outcome = analyze_git_changes(tmp_dir, fn.since_commit, 10, fn.os)]
    /\ UNCHANGED <<active_sessions, web_sessions, sessions, call, served,
                   cl_message, cl_result, chat>>

NextGit ==
    \/ call_clone_repository
    \/ call_analyze_git_changes

SpecGit ==
    InitGit /\ [][NextGit]_vars

(***************************************************************************)
(* tools/pdf_tools.py: generate_test_cases_from_pdf.  The analysis data is *)
(* [is_none, status, analysis] (is_none for None) with analysis =          *)
(* [testable_items, document_type, sections_count]; an item is a dict with *)
(* or without the key 'description'.  A test case keeps its test_case_id,  *)
(* title, test_type, priority and source.                                  *)
(***************************************************************************)
\* Testable items of an analysis.
MaxItems == 3

RECURSIVE decimal(_)
decimal(n) ==
    IF n < 10 THEN <<DigitChars[n + 1]>>
    ELSE decimal(n \div 10) \o <<DigitChars[(n % 10) + 1]>>

\* f"{n:03d}"
format_03d(n) ==
    LET digits == decimal(n) IN
    IF Len(digits) >= 3 THEN digits
    ELSE [i \in 1..(3 - Len(digits)) |-> "0"] \o digits

\* f"TC-PDF-{test_case_counter:03d}"
test_case_id(test_case_counter) ==
    <<"T", "C", "-", "P", "D", "F", "-">> \o format_03d(test_case_counter)

TestCase(counter, title, test_type, priority, source) ==
    [test_case_id |-> test_case_id(counter), title |-> title,
     test_type |-> test_type, priority |-> priority, source |-> source]

\* The loop over testable_items from item i on: [exc, value, counter].
RECURSIVE item_test_cases(_, _, _)
item_test_cases(testable_items, i, test_case_counter) ==
    IF i > Len(testable_items)
    THEN [exc |-> "", value |-> <<>>, counter |-> test_case_counter]
    ELSE IF ~testable_items[i].has_description
    THEN [exc |-> "KeyError", value |-> <<>>, counter |-> test_case_counter]
    ELSE LET positive_test ==
                 TestCase(test_case_counter,
                          <<"Verify: ", testable_items[i].description>>,
                          "Functional", "Medium", "PDF Requirements")
             negative_test ==
                 TestCase(test_case_counter + 1,
                          <<"Verify error handling: ", testable_items[i].description>>,
                          "Negative", "Low", "PDF Requirements")
             rest == item_test_cases(testable_items, i + 1, test_case_counter + 2)
         IN  [rest EXCEPT !.value = <<positive_test, negative_test>> \o rest.value]

generate_test_cases_from_pdf_try(pdf_analysis_data) ==
    IF pdf_analysis_data.is_none \/ pdf_analysis_data.status # "success"
    THEN Returns([status |-> "error", test_cases |-> <<>>])
    ELSE LET analysis == pdf_analysis_data.analysis
             items == item_test_cases(analysis.testable_items, 1, 1)
             doc_type == analysis.document_type
             typed ==
                 IF doc_type = "api_specification"
                 THEN [value |-> <<TestCase(items.counter, <<"API Endpoint Validation">>,
                                            "API", "High", "PDF API Specification")>>,
                       counter |-> items.counter + 1]
                 ELSE IF doc_type = "requirements"
                 THEN [value |-> <<TestCase(items.counter,
                                            <<"Requirements Coverage Validation">>,
                                            "Requirements", "High",
                                            "PDF Requirements Document")>>,
                       counter |-> items.counter]
                 ELSE [value |-> <<>>, counter |-> items.counter]
             integration ==
                 IF analysis.sections_count > 3
                 THEN <<TestCase(typed.counter, <<"End-to-End Workflow Validation">>,
                                 "Integration", "High", "PDF Document Workflows")>>
                 ELSE <<>>
         IN  IF items.exc # "" THEN Raises(items.exc)
             ELSE Returns([status |-> "success",
                           test_cases |-> items.value \o typed.value \o integration])

generate_test_cases_from_pdf(pdf_analysis_data) ==
    LET try == generate_test_cases_from_pdf_try(pdf_analysis_data) IN
    IF try.exc = "" THEN try
    ELSE Returns([status |-> "error", test_cases |-> <<>>])

TestableItems ==
    {[has_description |-> TRUE, description |-> "login works"],
     [has_description |-> FALSE, description |-> ""]}

DocumentTypes ==
    {"api_specification", "requirements", "user_manual", "unknown"}

SectionCounts ==
    {0, 3, 4}

PdfAnalyses ==
    [testable_items : UNION {[1..n -> TestableItems] : n \in 0..MaxItems},
     document_type : DocumentTypes,
     sections_count : SectionCounts]

InitPdf ==
    /\ active_sessions = [u \in Users |-> 0]
    /\ web_sessions = [u \in WebUsers |-> 0]
    /\ sessions = <<>>
    /\ call = [c \in Calls |-> IdleCall]
    /\ served = 0
    /\ cl_message = <<>>
    /\ cl_result = <<>>
    /\ chat = ChatStart
    /\ \E is_none \in BOOLEAN, status \in {"success", "error"}, analysis \in PdfAnalyses :
           /\ is_none => (status = "error" /\ analysis.testable_items = <<>>
                          /\ analysis.document_type = "unknown"
                          /\ analysis.sections_count = 0)
           /\ fn = [name |-> "generate_test_cases_from_pdf",
                    pdf_analysis_data |-> [is_none |-> is_none, status |-> status,
                                           analysis |-> analysis],
                    done |-> FALSE, outcome |-> Raises("")]

call_generate_test_cases_from_pdf ==
    /\ fn.name = "generate_test_cases_from_pdf"
    /\ ~fn.done
    /\ fn' = [fn EXCEPT !.done = TRUE,
                        !.outcome = generate_test_cases_from_pdf(fn.pdf_analysis_data)]
    /\ UNCHANGED <<active_sessions, web_sessions, sessions, call, served,
                   cl_message, cl_result, chat>>

NextPdf ==
    call_generate_test_cases_from_pdf

SpecPdf ==
    InitPdf /\ [][NextPdf]_vars

(***************************************************************************)
(* The classifier on its own: _detect_request_type applied to a message    *)
(* drawn from the spec's scenario requests, the advertised commands and    *)
(* every sentence of at most MaxWords words of Vocabulary.                 *)
(***************************************************************************)
RECURSIVE join_words(_)
join_words(words) ==
    IF words = <<>> THEN <<>>
    ELSE IF Len(words) = 1 THEN words[1]
    ELSE words[1] \o <<" ">> \o join_words(Tail(words))

WordMessages ==
    {join_words(words) : words \in UNION {[1..n -> Vocabulary] : n \in 0..MaxWords}}

ScenarioMessages ==
    {msg_empty, msg_hello, msg_git_scenario, msg_jira_scenario, msg_cmd_git,
     msg_cmd_jira, msg_cmd_pdf, msg_cmd_script, msg_cmd_code, msg_cmd_test,
     msg_run_pytest, msg_pull_repo, msg_jira_only}

ClassifierMessages ==
    WordMessages \cup ScenarioMessages

InitClassify ==
    /\ active_sessions = [u \in Users |-> 0]
    /\ web_sessions = [u \in WebUsers |-> 0]
    /\ sessions = <<>>
    /\ call = [c \in Calls |-> IdleCall]
    /\ served = 0
    /\ cl_message \in ClassifierMessages
    /\ cl_result = <<>>
    /\ chat = ChatStart
    /\ fn = NoCall

classify ==
    /\ cl_result = <<>>
    /\ cl_result' = <<_detect_request_type(cl_message)>>
    /\ UNCHANGED <<active_sessions, web_sessions, sessions, call, served, cl_message, chat, fn>>

NextClassify ==
    classify

SpecClassify ==
    InitClassify /\ [][NextClassify]_vars

(***************************************************************************)
(* Properties.                                                             *)
(***************************************************************************)
AllAgents ==
    {git_workflow, jira_workflow, pdf_workflow, script_workflow,
     test_generation_workflow, enhanced_root_agent}

AgentNamed(name) ==
    CHOOSE agent \in AllAgents : agent.name = name

\* The pipelines whose sub_agents are all stages.
SequentialPipelines ==
    {agent \in AllAgents : \A i \in 1..Len(agent.sub_agents) :
                               agent.sub_agents[i].kind = "llm"}

\* The stage names of an agent tree in declaration order, a loop body
\* repeated max_iterations times.
RECURSIVE Unrolled(_)
RECURSIVE UnrolledList(_)
RECURSIVE Repeated(_, _)
UnrolledList(agents) ==
    IF agents = <<>> THEN <<>>
    ELSE Unrolled(Head(agents)) \o UnrolledList(Tail(agents))

Repeated(names, n) ==
    IF n = 0 THEN <<>> ELSE names \o Repeated(names, n - 1)

Unrolled(agent) ==
    IF agent.kind = "llm" THEN <<agent.name>>
    ELSE IF agent.kind = "loop"
    THEN Repeated(UnrolledList(agent.sub_agents), agent.max_iterations)
    ELSE UnrolledList(agent.sub_agents)

\* How many times a stage was invoked in a run.
Invocations(results, stage_name) ==
    Cardinality({i \in 1..Len(results) : results[i].stage = stage_name})

\* The value last written under key by results[1..n] (defined when one was).
LastWritten(results, key, n) ==
    LET writers == {j \in 1..n : results[j].delta # <<>> /\ results[j].delta[1] = key}
    IN  results[CHOOSE j \in writers : \A k \in writers : k <= j].delta[2]

\* C1: in a sequential pipeline, when stages 1..k-1 succeed and stage k
\* fails, the run holds exactly k stage results (k-1 successes, then the
\* failure, in declaration order), its status is failed, it is over, and no
\* later stage is executed.
C1_SequentialShortCircuit ==
    \A c \in Calls :
        call[c].root \in {agent.name : agent \in SequentialPipelines} =>
            LET results == call[c].results
                declared == Unrolled(AgentNamed(call[c].root))
            IN  \A k \in 1..Len(results) :
                    results[k].status = "failure" =>
                        /\ Len(results) = k
                        /\ k <= Len(declared)
                        /\ \A i \in 1..(k - 1) : results[i].status = "success"
                        /\ \A i \in 1..k : results[i].stage = declared[i]
                        /\ call[c].status = "failed"
                        /\ call[c].pc = "raised"

\* GitWorkflow [GitAnalyzer, CodeAnalyzer, StrategyPlanner] with the second
\* stage failing.
C1_Witness ==
    \E c \in Calls :
        /\ call[c].root = "GitWorkflow"
        /\ call[c].status = "failed"
        /\ Len(call[c].results) = 2
        /\ call[c].results[1].status = "success"
        /\ call[c].results[2].status = "failure"

\* C2: TestRefinementLoop (max_iterations = 3): the iteration counter never
\* exceeds 3 and no body stage is invoked a 4th time; a run in which the exit
\* predicate was never satisfied and no stage failed has run the body exactly
\* 3 times and ends exhausted.
C2_LoopBounded ==
    \A c \in Calls :
        call[c].root = "TestGenerationWorkflow" =>
            LET results == call[c].results IN
            /\ \A i \in 1..Len(call[c].stack) : call[c].stack[i].times_looped <= 3
            /\ Invocations(results, "TestRunner") <= 3
            /\ Invocations(results, "DebuggerAndRefiner") <= 3
            /\ (call[c].pc = "done" /\ \A i \in 1..Len(results) : ~results[i].escalate) =>
                   /\ Invocations(results, "TestRunner") = 3
                   /\ Invocations(results, "DebuggerAndRefiner") = 3
                   /\ call[c].status = "exhausted"

C2_Witness ==
    \E c \in Calls :
        /\ call[c].root = "TestGenerationWorkflow"
        /\ call[c].pc = "done"
        /\ call[c].status = "exhausted"
        /\ Invocations(call[c].results, "TestRunner") = 3
        /\ \A i \in 1..Len(call[c].results) : ~call[c].results[i].escalate

\* C3: when the exit predicate is first satisfied after iteration k (k in
\* 1..3), the body has run exactly k iterations, nothing runs after it, and
\* the run ends completed.
C3_LoopExitCompletes ==
    \A c \in Calls :
        call[c].root = "TestGenerationWorkflow" =>
            LET results == call[c].results IN
            \A i \in 1..Len(results) :
                results[i].escalate =>
                    LET k == Invocations(results, "DebuggerAndRefiner") IN
                    /\ i = Len(results)
                    /\ results[i].stage = "DebuggerAndRefiner"
                    /\ k \in 1..3
                    /\ Invocations(results, "TestRunner") = k
                    /\ call[c].pc = "done"
                    /\ call[c].status = "completed"

\* The exit predicate satisfied after the last allowed iteration.
C3_Witness ==
    \E c \in Calls :
        /\ call[c].root = "TestGenerationWorkflow"
        /\ Len(call[c].results) = 9
        /\ call[c].results[9].escalate
        /\ Invocations(call[c].results, "TestRunner") = 3
        /\ call[c].status = "completed"

\* C4: a failure of a body stage (TestRunner or DebuggerAndRefiner) in any
\* iteration is the last thing the run does: no other body stage, no further
\* iteration, status failed.
C4_BodyFailureStopsLoop ==
    \A c \in Calls :
        call[c].root = "TestGenerationWorkflow" =>
            LET results == call[c].results IN
            \A i \in 1..Len(results) :
                (/\ results[i].status = "failure"
                 /\ results[i].stage \in {"TestRunner", "DebuggerAndRefiner"}) =>
                    /\ i = Len(results)
                    /\ call[c].pc = "raised"
                    /\ call[c].status = "failed"

\* TestRunner fails in the second iteration.
C4_Witness ==
    \E c \in Calls :
        /\ call[c].root = "TestGenerationWorkflow"
        /\ Len(call[c].results) = 6
        /\ call[c].results[6].stage = "TestRunner"
        /\ call[c].results[6].status = "failure"
        /\ call[c].status = "failed"

\* C5: the stages of a run are invoked in declaration order, and each reads
\* a state holding, for every key written earlier in the run, the value last
\* written.
C5_DeclarationOrder ==
    \A c \in Calls :
        call[c].root # "" =>
            LET results == call[c].results
                declared == Unrolled(AgentNamed(call[c].root))
            IN  /\ Len(results) <= Len(declared)
                /\ \A i \in 1..Len(results) :
                       /\ results[i].stage = declared[i]
                       /\ \A j \in 1..(i - 1) :
                              results[j].delta # <<>> =>
                                  /\ results[j].delta[1] \in DOMAIN results[i].read
                                  /\ results[i].read[results[j].delta[1]]
                                         = LastWritten(results, results[j].delta[1], i - 1)

C5_Witness ==
    \E c \in Calls :
        /\ call[c].root = "GitWorkflow"
        /\ call[c].pc = "done"
        /\ Len(call[c].results) = 3
        /\ call[c].results[3].stage = "StrategyPlanner"
        /\ call[c].results[3].read["git_analysis_results"] = call[c].results[1].delta[2]
        /\ call[c].results[3].read["static_analysis_report"] = call[c].results[2].delta[2]

\* C6: when a stage fails, the session state still holds, for every key the
\* completed stages of the run wrote, the value last written.
C6_NoRollback ==
    \A c \in Calls :
        call[c].status = "failed" =>
            LET results == call[c].results
                state == sessions[call[c].session_id].state
            IN  \A j \in 1..Len(results) :
                    results[j].delta # <<>> =>
                        /\ results[j].delta[1] \in DOMAIN state
                        /\ state[results[j].delta[1]]
                               = LastWritten(results, results[j].delta[1], Len(results))

C6_Witness ==
    \E c \in Calls :
        /\ call[c].root = "JiraWorkflow"
        /\ call[c].status = "failed"
        /\ Len(call[c].results) = 3
        /\ "test_case_design" \in DOMAIN sessions[call[c].session_id].state

\* C7: no step removes a key from a session's state, and no session is
\* dropped.
C7_KeysNeverRemoved ==
    [][/\ Len(sessions') >= Len(sessions)
       /\ \A sid \in 1..Len(sessions) :
              (DOMAIN sessions[sid].state) \subseteq (DOMAIN sessions'[sid].state)]_vars

\* A session seeded for a git request and then seeded again for a general
\* one: the git keys and the first request's stage output are still there.
C7_Witness ==
    \E sid \in 1..Len(sessions) :
        LET state == sessions[sid].state IN
        /\ {"git_changes", "routing_decision", "request_type"} \subseteq DOMAIN state
        /\ state["request_type"] = PyStr(s_general_chat)
        /\ state["routing_decision"][1] = "out"
        /\ state["routing_decision"][3] = 1
        /\ served = 2

\* C8: every request type the classifier returns is a name of workflow_map.
C8_ClassifierNamesRegistered ==
    cl_result # <<>> => cl_result[1] \in workflow_names

AllKeywords ==
    git_keywords \cup git_analysis_keywords \cup jira_keywords \cup jira_test_keywords
    \cup pdf_keywords \cup script_keywords \cup test_keywords \cup code_keywords

NoKeywordMatches(message) ==
    \A keyword \in AllKeywords : ~str_contains(keyword, str_lower(message))

C11_ScenarioClassification ==
    cl_result # <<>> =>
        /\ cl_message = msg_git_scenario => cl_result[1] = s_git_analysis
        /\ cl_message = msg_jira_scenario => cl_result[1] = s_jira_test_generation

C11_Witness ==
    /\ cl_message = msg_jira_scenario
    /\ cl_result = <<s_jira_test_generation>>

\* The keywords of the domain-specific families (git, ticket, document,
\* script) and the request types they lead to.
DomainKeywords ==
    git_keywords \cup jira_keywords \cup pdf_keywords \cup script_keywords

DomainRequestTypes ==
    {s_git_analysis, s_git_pull, s_jira_test_generation, s_jira_analysis,
     s_pdf_processing, s_script_generation}

C13_UnknownWorkflowAborts ==
    \A c \in Calls :
        LET results == call[c].results IN
        \A i \in 1..Len(results) :
            (/\ results[i].stage = workflow_dispatcher_agent.name
             /\ results[i].status = "success"
             /\ results[i].delta[2][2] \notin workflow_names) =>
                /\ i = Len(results)
                /\ call[c].status # "completed"

\* C14: sessions of different user ids are independent.  A step taken while
\* handling a request of a user changes only sessions owned by that user and
\* only that user's active_sessions entry; the entry of a user names a
\* session of that user; and every stage output held in a session's state
\* was written by a request of the session's user.
C14_SessionIsolation ==
    [][\A c \in DOMAIN call :
           call'[c] # call[c] =>
               LET user == call'[c].user_id IN
               /\ \A sid \in 1..Len(sessions) :
                      sessions'[sid] # sessions[sid] => sessions[sid].user_id = user
               /\ \A sid \in (Len(sessions) + 1)..Len(sessions') :
                      sessions'[sid].user_id = user
               /\ \A u \in Users \ {user} : active_sessions'[u] = active_sessions[u]
               /\ \A u \in Users :
                      active_sessions'[u] # 0 =>
                          sessions'[active_sessions'[u]].user_id = u
               /\ \A sid \in 1..Len(sessions') :
                      \A key \in DOMAIN sessions'[sid].state :
                          LET value == sessions'[sid].state[key] IN
                          value[1] = "out" =>
                              \E d \in DOMAIN call :
                                  /\ call'[d].serial = value[3]
                                  /\ call'[d].user_id = sessions'[sid].user_id]_vars

\* Two requests of different users in flight at once, each having written
\* its routing decision into its own session.
C14_Witness ==
    /\ DOMAIN call = ConcurrentCalls
    /\ call[1].user_id = "demo_user"
    /\ call[2].user_id = "other_user"
    /\ call[1].pc = "stage"
    /\ call[2].pc = "stage"
    /\ call[1].session_id # call[2].session_id
    /\ call[1].results # <<>>
    /\ call[2].results # <<>>
    /\ sessions[call[1].session_id].state["routing_decision"][3] = call[1].serial
    /\ sessions[call[2].session_id].state["routing_decision"][3] = call[2].serial
    /\ sessions[call[1].session_id].state["user_message"]
           # sessions[call[2].session_id].state["user_message"]

\* C15: with non-overlapping process_user_message calls, a call creates a
\* session only for a user id that has none, so a user id owns at most one
\* session; every request of a user runs on the session of the user's
\* active_sessions entry; and an entry, once set, is never removed or
\* replaced.
C15_SessionLifecycle ==
    [][/\ \A u \in Users :
              /\ active_sessions[u] # 0 => active_sessions'[u] = active_sessions[u]
              /\ Cardinality({sid \in 1..Len(sessions') : sessions'[sid].user_id = u}) <= 1
       /\ \A c \in DOMAIN call :
              /\ (call'[c].api = "chat" /\ call'[c].pc \notin {"idle", "create_session"}) =>
                     call'[c].session_id = active_sessions'[call'[c].user_id]
              /\ (/\ call'[c] # call[c]
                  /\ call'[c].api = "chat"
                  /\ Len(sessions') > Len(sessions)) =>
                     active_sessions[call'[c].user_id] = 0]_vars

\* The second request of demo_user has run on the session created at the
\* first.
C15_Witness ==
    /\ served = 2
    /\ Len(sessions) = 1
    /\ active_sessions["demo_user"] = 1
    /\ call[1].api = "chat"
    /\ call[1].user_id = "demo_user"
    /\ call[1].serial = 2
    /\ call[1].session_id = 1
    /\ call[1].pc = "done"

\* C16: in the chat loop, an exception raised while a message is processed
\* is reported and the loop is back at the prompt; the loop ends only on
\* the input exit, quit or bye or on a keyboard interrupt, and it does end
\* on those inputs; a line that is empty once stripped leaves the loop at
\* the prompt without a call of the orchestrator; the ended loop does
\* nothing more.
C16_ChatLoopSurvivesErrors ==
    [][/\ (/\ chat.pc = "call"
           /\ call[1].pc = "raised"
           /\ chat' # chat) =>
              /\ chat'.pc = "input"
              /\ chat'.printed = "Error"
              /\ chat'.errors = chat.errors + 1
       /\ (chat.pc # "ended" /\ chat'.pc = "ended") =>
              \/ chat'.interrupted
              \/ /\ chat.pc = "input"
                 /\ chat'.lines = chat.lines + 1
                 /\ str_lower(chat'.user_input) \in exit_words
       /\ (/\ chat'.lines = chat.lines + 1
           /\ chat'.printed # "Error"
           /\ str_lower(chat'.user_input) \in exit_words) =>
              chat'.pc = "ended"
       /\ (/\ chat'.lines = chat.lines + 1
           /\ chat'.user_input = <<>>
           /\ ~chat'.interrupted) =>
              /\ chat'.pc = "input"
              /\ call' = call
              /\ served' = served
       /\ chat.pc = "ended" => (chat' = chat /\ call' = call)]_vars

\* The first message raised, the error was reported, and the second message
\* has been answered.
C16_Witness ==
    /\ chat.pc = "input"
    /\ chat.lines = 2
    /\ chat.errors = 1
    /\ served = 2
    /\ call[1].serial = 2
    /\ call[1].pc = "done"
    /\ chat.printed = "Response"

\* C17: when the result summarizer starts in a request for which a
\* registered workflow was selected, the stages of that workflow have been
\* run in the request: its first stage was invoked before the summarizer.
C17_WorkflowBeforeSummarizer ==
    \A c \in DOMAIN call :
        LET results == call[c].results IN
        \A i \in 1..Len(results) :
            (/\ results[i].stage = enhanced_result_summarizer.name
             /\ results[i].read["selected_workflow"][2] \in workflow_names) =>
                LET selected == execute_selected_workflow(results[i].read)[1]
                IN  \E j \in 1..(i - 1) : results[j].stage = Unrolled(selected)[1]

\* The states of the request state machine a call has passed, read off the
\* call: Received once process_user_message was entered, Classified once
\* request_type is set (line 50), Dispatched once the content was built and
\* handed to run_async (lines 55-65), Executing once the run has reached its
\* stages, and the terminal state of the status the run ended with.
request_states(r) ==
    (IF r.pc # "idle" THEN <<"Received">> ELSE <<>>)
    \o (IF r.request_type # <<>> THEN <<"Classified">> ELSE <<>>)
    \o (IF r.content # PyNone THEN <<"Dispatched">> ELSE <<>>)
    \o (IF r.stack # <<>> \/ r.results # <<>> THEN <<"Executing">> ELSE <<>>)
    \o (IF r.status = "completed" THEN <<"Completed">> ELSE <<>>)
    \o (IF r.status = "failed" THEN <<"Failed">> ELSE <<>>)
    \o (IF r.status = "exhausted" THEN <<"Exhausted">> ELSE <<>>)

IsPrefix(s, t) ==
    Len(s) <= Len(t) /\ SubSeq(t, 1, Len(s)) = s

RequestOrder ==
    <<"Received", "Classified", "Dispatched", "Executing">>

C19_ExitOnlyAfterFullIteration ==
    \A c \in DOMAIN call :
        call[c].root = "TestGenerationWorkflow" =>
            LET results == call[c].results
                runs == Invocations(results, "TestRunner")
                refinements == Invocations(results, "DebuggerAndRefiner")
            IN  /\ \A i \in 1..Len(results) :
                       results[i].escalate =>
                           /\ results[i].stage = "DebuggerAndRefiner"
                           /\ i > 1
                           /\ results[i - 1].stage = "TestRunner"
                           /\ results[i - 1].status = "success"
                /\ refinements <= runs
                /\ runs <= refinements + 1
                /\ call[c].pc = "done" => (runs >= 1 /\ runs = refinements)

\* The exit predicate satisfied in the first iteration: the body has run
\* once, in full.
C19_Witness ==
    \E c \in DOMAIN call :
        /\ call[c].root = "TestGenerationWorkflow"
        /\ call[c].pc = "done"
        /\ Len(call[c].results) = 5
        /\ call[c].results[4].stage = "TestRunner"
        /\ call[c].results[5].stage = "DebuggerAndRefiner"
        /\ call[c].results[5].escalate

\* C20: at most one pipeline execution is active on a session: two calls
\* whose runs are in progress run on different sessions.
C20_SingleActivePipeline ==
    \A c, d \in DOMAIN call :
        (/\ c # d
         /\ call[c].pc \in {"callback", "stage"}
         /\ call[d].pc \in {"callback", "stage"}) =>
            call[c].session_id # call[d].session_id

\* C21: a pipeline run whose stage invocations all return ends, and ends
\* with exactly one of the statuses completed, failed and exhausted; a run
\* of TestGenerationWorkflow invokes CodeAnalyzer, TestCaseDesigner and
\* TestImplementer at most once each and TestRunner and DebuggerAndRefiner
\* at most 3 times each.
C21_RunTerminates ==
    /\ [](\A c \in Calls :
              LET results == call[c].results IN
              /\ (call[c].root # "" /\ call[c].pc \in {"done", "raised"}) <=>
                     call[c].status \in {"completed", "failed", "exhausted"}
              /\ call[c].root = "TestGenerationWorkflow" =>
                     /\ \A name \in {"CodeAnalyzer", "TestCaseDesigner", "TestImplementer"} :
                            Invocations(results, name) <= 1
                     /\ \A name \in {"TestRunner", "DebuggerAndRefiner"} :
                            Invocations(results, name) <= 3)
    /\ \A c \in Calls :
           (call[c].pc = "stage") ~> (call[c].pc \in {"done", "raised"})

\* A run of TestGenerationWorkflow that used every iteration and ended.
C21_Witness ==
    \E c \in Calls :
        /\ call[c].root = "TestGenerationWorkflow"
        /\ call[c].pc = "done"
        /\ call[c].status = "exhausted"
        /\ Len(call[c].results) = 9
        /\ Invocations(call[c].results, "CodeAnalyzer") = 1
        /\ Invocations(call[c].results, "DebuggerAndRefiner") = 3

CommonKeys ==
    {"user_message", "request_type", "task", "source_code", "language",
     "test_results", "analysis_complete"}

\* The seeding step of call c has just completed on a content with at least
\* one part.
Seeded(c) ==
    /\ call[c].api \in {"chat", "web"}
    /\ call[c].pc = "stage"
    /\ call[c].results = <<>>
    /\ call[c].content # PyNone
    /\ call[c].content[2] # <<>>

\* C22: after the seeding step of a request whose content has at least one
\* part, the session state holds user_message, request_type, task,
\* source_code, language, test_results and analysis_complete.
C22_SeedingWritesCommonKeys ==
    \A c \in DOMAIN call :
        Seeded(c) => CommonKeys \subseteq DOMAIN sessions[call[c].session_id].state

\* C23: the seeding step never raises, whatever the content: no run ends
\* failed before its first stage, and after seeding request_type and task
\* hold a request type and a task.
C23_SeedingNeverRaises ==
    \A c \in DOMAIN call :
        /\ ~(call[c].api \in {"chat", "web"} /\ call[c].pc = "raised" /\ call[c].results = <<>>)
        /\ Seeded(c) =>
               LET state == sessions[call[c].session_id].state IN
               /\ {"request_type", "task"} \subseteq DOMAIN state
               /\ state["request_type"][1] = "str"
               /\ state["task"][1] = "str"

\* C24: every clone timeout, invalid repository path or failed git process
\* (non-zero exit) in clone_repository or analyze_git_changes yields a returned
\* result with status "error", and no exception escapes either function.
GitFailure ==
    \/ /\ fn.name = "clone_repository"
       /\ (fn.target_dir = PyNone => fn.os.mkdtemp.exc = "")
       /\ \/ fn.os.clone = RunRaises("TimeoutExpired")
          \/ fn.os.clone.kind = "completed" /\ fn.os.clone.returncode # 0
          \/ fn.os.clone.kind = "completed" /\ fn.os.clone.returncode = 0
             /\ fn.os.rev_parse.kind = "completed" /\ fn.os.rev_parse.returncode # 0
    \/ /\ fn.name = "analyze_git_changes"
       /\ \/ ~fn.os.exists \/ ~fn.os.git_exists
          \/ \E run \in {fn.os.log, fn.os.diff, fn.os.stat} :
                 run.kind = "completed" /\ run.returncode # 0

C24_GitFailuresReported ==
    (fn.name \in {"clone_repository", "analyze_git_changes"} /\ fn.done) =>
        /\ fn.outcome.exc = ""
        /\ GitFailure => fn.outcome.value.status = "error"

\* C25: each command form advertised by the chat interface, with an argument
\* holding no classifier keyword, is classified to the capability it is
\* advertised for: git_analysis, jira_test_generation, pdf_processing,
\* script_generation, code_analysis and test_generation.
AdvertisedCommands ==
    << <<msg_cmd_git, s_git_analysis>>,
       <<msg_cmd_jira, s_jira_test_generation>>,
       <<msg_cmd_pdf, s_pdf_processing>>,
       <<msg_cmd_script, s_script_generation>>,
       <<msg_cmd_code, s_code_analysis>>,
       <<msg_cmd_test, s_test_generation>> >>

C25_AdvertisedCommandsClassified ==
    cl_result # <<>> =>
        \A i \in 1..Len(AdvertisedCommands) :
            cl_message = AdvertisedCommands[i][1] => cl_result[1] = AdvertisedCommands[i][2]

\* C26: for every message m handled by process_user_message, after seeding
\* the session state has user_message equal to m, request_type equal to
\* _detect_request_type(m) and task equal to the task _format_request assigns
\* to that request type.
C26_SeedingRoundTrip ==
    \A c \in DOMAIN call :
        /\ ~(call[c].api = "chat" /\ call[c].pc = "raised" /\ call[c].results = <<>>)
        /\ (call[c].api = "chat" /\ Seeded(c)) =>
               LET state == sessions[call[c].session_id].state
                   request_type == _detect_request_type(call[c].message)
               IN  /\ {"user_message", "request_type", "task"} \subseteq DOMAIN state
                   /\ state["user_message"] = PyStr(call[c].message)
                   /\ state["request_type"] = PyStr(request_type)
                   /\ state["task"] = PyStr(task_for(request_type))

C26_Witness ==
    \E c \in DOMAIN call :
        /\ call[c].api = "chat"
        /\ Seeded(c)
        /\ call[c].message = msg_quoted
        /\ sessions[call[c].session_id].state["user_message"] = PyStr(msg_quoted)
        /\ sessions[call[c].session_id].state["task"] = PyStr(s_general_assistance)

\* C27: when two process_user_message calls for the same previously unseen
\* user id interleave at their await points, exactly one session is created
\* for that user, and both calls run the pipeline on that same session id.
C27_OneSessionPerUser ==
    \A c \in DOMAIN call, d \in DOMAIN call :
        (/\ c # d
         /\ call[c].api = "chat"
         /\ call[d].api = "chat"
         /\ call[c].user_id = call[d].user_id
         /\ call[c].session_id # 0
         /\ call[d].session_id # 0) =>
            /\ Cardinality({sid \in 1..Len(sessions) :
                                sessions[sid].user_id = call[c].user_id}) = 1
            /\ call[c].session_id = call[d].session_id

\* The keys specific to the family of a request type.
FamilyKeys(request_type) ==
    IF request_type \in {PyStr(s_git_analysis), PyStr(s_git_pull)}
    THEN {"repository_url", "git_changes", "affected_files"}
    ELSE IF request_type \in {PyStr(s_jira_analysis), PyStr(s_jira_test_generation)}
    THEN {"jira_url", "jira_requirements", "test_scenarios"}
    ELSE IF request_type = PyStr(s_pdf_processing)
    THEN {"pdf_content", "document_analysis"}
    ELSE IF request_type = PyStr(s_script_generation)
    THEN {"script_requirements", "generated_script"}
    ELSE {}

\* C28: seeding a request of type T writes only the common keys and the keys
\* specific to T's family; the keys specific to every other request family,
\* and stage output keys left in the same session by earlier requests, are
\* unchanged by the seeding step (as is every other session).
C28_SeedingFrame ==
    [][\A c \in DOMAIN call :
           (call[c].pc = "callback" /\ call'[c].pc = "stage") =>
               LET sid == call[c].session_id
                   old == sessions[sid].state
                   new == sessions'[sid].state
                   written == CommonKeys \cup
                              (IF "request_type" \in DOMAIN new
                               THEN FamilyKeys(new["request_type"]) ELSE {})
               IN  /\ \A key \in (DOMAIN old \cup DOMAIN new) \ written :
                          /\ key \in DOMAIN old
                          /\ key \in DOMAIN new
                          /\ new[key] = old[key]
                   /\ Len(sessions') = Len(sessions)
                   /\ \A other \in (1..Len(sessions)) \ {sid} :
                          sessions'[other] = sessions[other]]_vars

\* A document request has been seeded in a session that holds the git keys
\* and the stage outputs of an earlier git request.
C28_Witness ==
    \E c \in DOMAIN call :
        /\ Seeded(c)
        /\ LET state == sessions[call[c].session_id].state IN
           /\ state["request_type"] = PyStr(s_pdf_processing)
           /\ {"pdf_content", "git_changes", "routing_decision"} \subseteq DOMAIN state
           /\ state["routing_decision"][1] = "out"
           /\ state["routing_decision"][3] # call[c].serial

\* The texts of the first parts of the events that have content with at
\* least one part, concatenated in the order of the events.
RECURSIVE FirstPartTexts(_)
FirstPartTexts(events) ==
    IF events = <<>> THEN <<>>
    ELSE LET event == events[Len(events)]
             carries == /\ event.has_content
                        /\ event.content # PyNone
                        /\ Len(event.content[2]) >= 1
         IN  FirstPartTexts(SubSeq(events, 1, Len(events) - 1))
             \o (IF carries THEN event.content[2][1][2] ELSE <<>>)

\* C29: the response returned by process_user_message is the concatenation,
\* in the order the events were produced, of the text of the first part of
\* every event that has content with at least one part; events without
\* content or parts contribute nothing, and the response is the empty string
\* when no event carries content.
C29_ResponseIsConcatenation ==
    (fn.name = "process_user_message" /\ fn.pc = "returned") =>
        /\ fn.final_output = FirstPartTexts(fn.events)
        /\ (\A i \in 1..Len(fn.events) :
                ~fn.events[i].has_content \/ fn.events[i].content = PyNone)
               => fn.final_output = <<>>

C29_Witness ==
    /\ fn.name = "process_user_message"
    /\ fn.pc = "returned"
    /\ Len(fn.events) = 3
    /\ fn.events[1] = Event(Content(<<Part(<<"b", "c">>), Part(<<"z">>)>>))
    /\ fn.events[2] = Event(Content(<<>>))
    /\ fn.events[3] = Event(Content(<<Part(<<"a">>)>>))
    /\ fn.final_output = <<"b", "c", "a">>

\* C30: all test_case_id values in the list returned by
\* generate_test_cases_from_pdf are pairwise distinct, for every analysis
\* input (any number of testable items, any document type, any section
\* count).
C30_TestCaseIdsDistinct ==
    (fn.name = "generate_test_cases_from_pdf" /\ fn.done) =>
        LET test_cases == fn.outcome.value.test_cases IN
        \A i \in 1..Len(test_cases), j \in 1..Len(test_cases) :
            i # j => test_cases[i].test_case_id # test_cases[j].test_case_id

====
